---- MODULE Spec2Model ----
(***************************************************************************)
(* A model of the synthetic grocery transaction generator                  *)
(* (grocery_data_generator.py): catalog construction, the timestamp        *)
(* resample loop, basket synthesis, flattening into transaction lines and  *)
(* the split of the line table into shard files.                           *)
(*                                                                         *)
(* Units.  Money is in cents, a price range and a uniform draw from it in  *)
(* tenths of a cent, a discount in percent, a timestamp in seconds since   *)
(* 2023-01-01 00:00:00 (start_date).  uuid4 identifiers are modelled by    *)
(* the creation index, which is unique like the uuid.  Arithmetic on       *)
(* money is exact; the binary floating point of the program is not         *)
(* modelled.                                                               *)
(***************************************************************************)
EXTENDS Integers, Sequences, FiniteSets, TLC

VARIABLES
    cfg,            \* TOTAL_TRANSACTIONS, TOTAL_CUSTOMERS, TOTAL_PRODUCTS, FILES_TO_SPLIT
    pc,             \* position of the run
    customers,      \* self.customers
    products,       \* self.products
    holiday_weeks,  \* self.holiday_weeks
    i,              \* transactions synthesized so far (loop index of generate_dataset)
    txn,            \* generate_transaction in progress: customer and timestamp loop
    transaction,    \* the transaction generate_transaction returned last
    transactions,   \* the flattened line table (list `transactions`, then df)
    files,          \* the shard files written so far, in order of writing
    error,          \* the exception that ended the run, or "none"
    output,         \* the CSV files glob.glob finds, in the order it lists them
    df,             \* the table load_data returned, shared by the views
    step,           \* position of main of the analysis app
    result,         \* what the view or metric called last computed
    raised          \* the exception that ended the app, or "none"

\* the state of grocery_data_generator.py
genVars == <<cfg, pc, customers, products, holiday_weeks, i, txn, transaction,
             transactions, files, error>>

\* the state of grocery_analysis_app.py
appVars == <<output, df, step, result, raised>>

vars == <<genVars, appVars>>

----------------------------------------------------------------------------
(* Bounds of the model *)

MaxTransactions == 2
MaxProducts == 5
MaxFiles == 3
MaxBaskets == 3
MaxBasketLines == 3

----------------------------------------------------------------------------
(* Module-level configuration of the program *)

STORE_LOCATIONS == <<"Downtown", "Suburb North", "Suburb South", "Coastal">>

CategoryNames ==
    <<"Dairy", "Bakery", "Produce", "Meat", "Frozen Foods", "Snacks",
      "Beverages", "Organic", "Pantry", "Personal Care">>

\* price_range in tenths of a cent, items as listed
PRODUCT_CATEGORIES ==
    [c \in {CategoryNames[n] : n \in DOMAIN CategoryNames} |->
        CASE c = "Dairy" ->
               [price_range |-> <<2990, 8990>>,
                items |-> <<"Whole Milk", "Greek Yogurt", "Cheddar Cheese", "Butter", "Cream">>]
          [] c = "Bakery" ->
               [price_range |-> <<1990, 12990>>,
                items |-> <<"Whole Wheat Bread", "Croissants", "Bagels", "Muffins", "Danish">>]
          [] c = "Produce" ->
               [price_range |-> <<990, 7990>>,
                items |-> <<"Bananas", "Apples", "Carrots", "Spinach", "Tomatoes">>]
          [] c = "Meat" ->
               [price_range |-> <<5990, 25990>>,
                items |-> <<"Chicken Breast", "Ground Beef", "Salmon", "Pork Chops", "Turkey">>]
          [] c = "Frozen Foods" ->
               [price_range |-> <<3990, 15990>>,
                items |-> <<"Ice Cream", "Frozen Pizza", "Frozen Vegetables", "TV Dinner", "Fish Sticks">>]
          [] c = "Snacks" ->
               [price_range |-> <<1990, 6990>>,
                items |-> <<"Potato Chips", "Pretzels", "Popcorn", "Trail Mix", "Cookies">>]
          [] c = "Beverages" ->
               [price_range |-> <<2990, 9990>>,
                items |-> <<"Cola", "Coffee", "Orange Juice", "Energy Drink", "Water">>]
          [] c = "Organic" ->
               [price_range |-> <<3990, 15990>>,
                items |-> <<"Organic Eggs", "Organic Milk", "Organic Quinoa", "Organic Berries", "Organic Honey">>]
          [] c = "Pantry" ->
               [price_range |-> <<1990, 12990>>,
                items |-> <<"Pasta", "Rice", "Cereal", "Peanut Butter", "Soup">>]
          [] OTHER ->
               [price_range |-> <<2990, 19990>>,
                items |-> <<"Shampoo", "Toothpaste", "Soap", "Deodorant", "Lotion">>]]

PAYMENT_METHODS == <<"Credit Card", "Debit Card", "Cash", "Mobile Wallet">>

\* [0.05, 0.10, 0.15], in percent
DISCOUNT_RATES == <<5, 10, 15>>

----------------------------------------------------------------------------
(* Helpers *)

SeqRange(s) == {s[n] : n \in DOMAIN s}

\* Python round(): the integer nearest to num/den, a tie going to the even one
PyRound(num, den) ==
    LET q == num \div den
        r == num % den
    IN  IF 2 * r < den THEN q
        ELSE IF 2 * r > den THEN q + 1
        ELSE IF q % 2 = 0 THEN q ELSE q + 1

SecondsPerDay == 24 * 60 * 60

\* datetime.weekday(): Monday is 0; 2023-01-01, day 0, is a Sunday
weekday(ts) == (6 + (ts \div SecondsPerDay)) % 7

\* a moment of the generation window: day of the year and second of the day
At(day, second) == day * SecondsPerDay + second

Min(a, b) == IF a < b THEN a ELSE b

\* Python slice s[a:b] for 0 <= a (b past the end is clipped)
Slice(s, a, b) == SubSeq(s, a + 1, Min(b, Len(s)))

\* the sequences of a sequence joined in order
RECURSIVE Concat(_)
Concat(chunks) ==
    IF chunks = <<>> THEN <<>> ELSE Head(chunks) \o Concat(Tail(chunks))

----------------------------------------------------------------------------
(* The random source.  A draw is a choice from its support; a run is given *)
(* the part D of each support it explores.                                 *)

\* the draws of a run of several transactions: one value of most of them
Draws ==
    [categories |-> {"Dairy"},        \* random.choice(list(PRODUCT_CATEGORIES.keys()))
     items      |-> {1},              \* position drawn in the category's items
     uniform    |-> {0},              \* random.uniform: 0 min, 1 middle, 2 max of the range
     ends       |-> {"first"},        \* position drawn by random.choice in a product list
     candidates |-> {At(2, 43200)},   \* Tue 2023-01-03 12:00, a regular day
     basket     |-> {1, 2},           \* random.randint(1, 15)
     q_base     |-> {3},              \* random.randint(1, 10)
     bulk       |-> {FALSE},          \* random.random() < 0.1
     q_bulk     |-> {7},              \* random.randint(6, 10)
     anomaly    |-> {FALSE},          \* random.random() < 0.001
     q_anomaly  |-> {50},             \* random.randint(50, 100)
     stores     |-> {STORE_LOCATIONS[1]},   \* random.choices(STORE_LOCATIONS)
     payments   |-> {PAYMENT_METHODS[3]},   \* random.choice(PAYMENT_METHODS)
     rates      |-> {10}]             \* random.choice(DISCOUNT_RATES)

\* more of the catalog and of a line: categories, products, quantities, rates
LineDraws ==
    [Draws EXCEPT !.categories = {"Dairy", "Organic"},
                  !.ends = {"first", "last"},
                  !.bulk = BOOLEAN,
                  !.anomaly = BOOLEAN,
                  !.rates = SeqRange(DISCOUNT_RATES)]

\* more of the quantity: the ends of the three ranges, both checks
QuantityDraws ==
    [Draws EXCEPT !.q_base = {1, 10},
                  !.bulk = BOOLEAN,
                  !.q_bulk = {6, 10},
                  !.anomaly = BOOLEAN,
                  !.q_anomaly = {50, 100}]

\* more of the timestamp: a regular day, a holiday, the Sunday that ends the
\* holiday's week at 00:00 and at 12:00, a Saturday of no holiday week
ClockDraws ==
    [Draws EXCEPT !.candidates = {At(2, 43200), At(184, 43200), At(189, 0),
                                  At(189, 43200), At(20, 43200)}]

----------------------------------------------------------------------------
(* __init__: the catalogs *)

\* one entry of self.customers
Customer(n, is_loyalty) == [customer_id |-> n, is_loyalty |-> is_loyalty]

\* high_demand_count = int(TOTAL_PRODUCTS * 0.2)
high_demand_count(total) == (total * 2) \div 10

\* the price range of a category, the organic premium applied
PriceRange(category) ==
    LET range == PRODUCT_CATEGORIES[category].price_range
    IN  IF category = "Organic"
        THEN <<(range[1] * 12) \div 10, (range[2] * 12) \div 10>>
        ELSE range

\* round(random.uniform(min_price, max_price), 2), in cents; u in 0..2
BasePrice(category, u) ==
    LET range == PriceRange(category)
    IN  PyRound(range[1] + ((range[2] - range[1]) * u) \div 2, 10)

\* the product built by iteration idx (from 0) of _generate_products
Product(idx, category, item, u, count) ==
    [product_id     |-> idx + 1,
     product_name   |-> <<PRODUCT_CATEGORIES[category].items[item], idx + 1>>,
     category       |-> category,
     base_price     |-> BasePrice(category, u),
     is_high_demand |-> idx < count]

\* the holiday dates, as days since 2023-01-01
Holidays == <<0, 358, 326, 184, 148, 246>>

\* one entry of _get_holiday_weeks: (week_start, week_end)
HolidayWeek(day) ==
    LET date == At(day, 0)
        week_start == date - weekday(date) * SecondsPerDay
    IN  <<week_start, week_start + 6 * SecondsPerDay>>

\* for start, end in self.holiday_weeks: if start <= date <= end
_is_holiday_week(weeks, date) ==
    \E n \in DOMAIN weeks : weeks[n][1] <= date /\ date <= weeks[n][2]

NoCustomer == Customer(0, FALSE)

NoIteration ==
    [transaction_date |-> -1, is_weekend |-> FALSE, is_holiday |-> FALSE,
     weekend_draw |-> "none", holiday_draw |-> "none", regular_draw |-> "none",
     accepted |-> FALSE]

\* the quantity draws of a basket slot; 0 stands for a draw that was not made
NoSlot == [q_base |-> 0, bulk |-> FALSE, q_bulk |-> 0, anomaly |-> FALSE, q_anomaly |-> 0]

NoCall == [customer |-> NoCustomer, loop |-> NoIteration, slot |-> NoSlot]

NoTransaction ==
    [transaction_id |-> 0, customer_id |-> 0, transaction_datetime |-> -1,
     store_location |-> "", products |-> <<>>, payment_method |-> "",
     loyalty_member |-> FALSE, discount_applied |-> 0]

_generate_customers ==
    /\ pc = "customers"
    /\ \E loyalty \in [1..cfg.customers -> BOOLEAN] :
          customers' = [n \in 1..cfg.customers |-> Customer(n, loyalty[n])]
    /\ pc' = "products"
    /\ UNCHANGED <<cfg, products, holiday_weeks, i, txn, transaction,
                   transactions, files, error>>
    /\ UNCHANGED appVars

_generate_products(D) ==
    /\ pc = "products"
    /\ \E draw \in [1..cfg.products ->
                         (D.categories \cap cfg.categories) \X D.items \X D.uniform] :
          products' = [n \in 1..cfg.products |->
                          Product(n - 1, draw[n][1], draw[n][2], draw[n][3],
                                  high_demand_count(cfg.products))]
    /\ pc' = "holidays"
    /\ UNCHANGED <<cfg, customers, holiday_weeks, i, txn, transaction,
                   transactions, files, error>>
    /\ UNCHANGED appVars

\* random.choice(list(PRODUCT_CATEGORIES.keys())) of an empty table raises
\* IndexError in the first pass of the loop
GenerateProductsFails ==
    /\ pc = "products"
    /\ cfg.products >= 1
    /\ cfg.categories = {}
    /\ pc' = "failed"
    /\ error' = "IndexError"
    /\ UNCHANGED <<cfg, customers, products, holiday_weeks, i, txn, transaction,
                   transactions, files>>
    /\ UNCHANGED appVars

_get_holiday_weeks ==
    /\ pc = "holidays"
    /\ holiday_weeks' = [n \in DOMAIN Holidays |-> HolidayWeek(Holidays[n])]
    /\ pc' = IF 0 < cfg.transactions THEN "select" ELSE "split"
    /\ UNCHANGED <<cfg, customers, products, i, txn, transaction,
                   transactions, files, error>>
    /\ UNCHANGED appVars

----------------------------------------------------------------------------
(* generate_transaction *)

\* the chosen customer taken off the catalog
SelectCustomerPop ==
    /\ pc = "select"
    /\ customers # <<>>
    /\ txn' = [customer |-> customers[Len(customers)], loop |-> NoIteration,
               slot |-> NoSlot]
    /\ customers' = SubSeq(customers, 1, Len(customers) - 1)
    /\ pc' = "resample"
    /\ UNCHANGED <<cfg, products, holiday_weeks, i, transaction,
                   transactions, files, error>>
    /\ UNCHANGED appVars

\* customer = random.choice(self.customers)
SelectCustomer ==
    /\ pc = "select"
    /\ customers # <<>>
    /\ \E customer \in SeqRange(customers) :
          txn' = [customer |-> customer, loop |-> NoIteration, slot |-> NoSlot]
    /\ pc' = "resample"
    /\ UNCHANGED <<cfg, customers, products, holiday_weeks, i, transaction,
                   transactions, files, error>>
    /\ UNCHANGED appVars

\* random.choice(self.customers) of an empty list raises IndexError
SelectCustomerFails ==
    /\ pc = "select"
    /\ customers = <<>>
    /\ pc' = "failed"
    /\ error' = "IndexError"
    /\ UNCHANGED <<cfg, customers, products, holiday_weeks, i, txn, transaction,
                   transactions, files>>
    /\ UNCHANGED appVars

\* the outcome of one draw random.random() < p that was made
Drawn(success) == IF success THEN "pass" ELSE "fail"

\* One pass of the body of `while True`: the candidate and the if/elif/elif
\* chain.  w, h and r are the outcomes of the draws against 0.3, 0.2 and 0.5;
\* `and` and `elif` evaluate a draw only when they reach it.
Iteration(weeks, date, w, h, r) ==
    LET is_weekend == weekday(date) >= 5
        is_holiday == _is_holiday_week(weeks, date)
        first  == is_weekend /\ w
        second == ~first /\ is_holiday /\ h
        third  == ~first /\ ~second /\ r
    IN  [transaction_date |-> date,
         is_weekend   |-> is_weekend,
         is_holiday   |-> is_holiday,
         weekend_draw |-> IF is_weekend THEN Drawn(w) ELSE "none",
         holiday_draw |-> IF ~first /\ is_holiday THEN Drawn(h) ELSE "none",
         regular_draw |-> IF ~first /\ ~second THEN Drawn(r) ELSE "none",
         accepted     |-> first \/ second \/ third]

ResampleTimestamp(D) ==
    /\ pc = "resample"
    /\ \E date \in D.candidates, w \in BOOLEAN, h \in BOOLEAN, r \in BOOLEAN :
          txn' = [txn EXCEPT !.loop = Iteration(holiday_weeks, date, w, h, r)]
    /\ pc' = IF txn'.loop.accepted THEN "basket" ELSE "resample"
    /\ UNCHANGED <<cfg, customers, products, holiday_weeks, i, transaction,
                   transactions, files, error>>
    /\ UNCHANGED appVars

\* [p for p in self.products if p['is_high_demand']]
HighDemand(catalog) == SelectSeq(catalog, LAMBDA p : p.is_high_demand)

\* the anomaly check made only when the bulk check did not fire (elif)
QuantityAnomalyUnlessBulk(q_base, bulk, q_bulk, anomaly, q_anomaly) ==
    IF bulk THEN q_bulk ELSE IF anomaly THEN q_anomaly ELSE q_base

\* the quantity of one basket slot from its draws
Quantity(q_base, bulk, q_bulk, anomaly, q_anomaly) ==
    LET quantity == IF bulk THEN q_bulk ELSE q_base
    IN  IF anomaly THEN q_anomaly ELSE quantity

\* the draws of one basket slot: random.randint(1, 10), (6, 10), (50, 100)
SlotDraws(D) ==
    [high_demand : BOOLEAN, end : D.ends, q_base : D.q_base \cap (1..10),
     bulk : D.bulk, q_bulk : D.q_bulk \cap (6..10), anomaly : D.anomaly,
     q_anomaly : D.q_anomaly \cap (50..100)]

\* num_items = random.randint(1, 15)
BasketSizes(D) == D.basket \cap (1..15)

\* the quantity draws that were made in a slot: randint(6, 10) and
\* randint(50, 100) are called only when their check fires
QuantityDrawsMade(slot) ==
    [q_base    |-> slot.q_base,
     bulk      |-> slot.bulk,
     q_bulk    |-> IF slot.bulk THEN slot.q_bulk ELSE 0,
     anomaly   |-> slot.anomaly,
     q_anomaly |-> IF slot.anomaly THEN slot.q_anomaly ELSE 0]

\* the list random.choice draws the slot's product from
SlotList(catalog, slot) ==
    IF slot.high_demand THEN HighDemand(catalog) ELSE catalog

\* one entry of transaction_products
ProductInfo(catalog, slot) ==
    LET list == SlotList(catalog, slot)
    IN  [product  |-> list[IF slot.end = "first" THEN 1 ELSE Len(list)],
         quantity |-> Quantity(slot.q_base, slot.bulk, slot.q_bulk,
                               slot.anomaly, slot.q_anomaly)]

\* the rate of a loyalty member doubled
DiscountLoyaltyDoubled(is_loyalty, hit, rate) ==
    IF hit THEN (IF is_loyalty THEN 2 * rate ELSE rate) ELSE 0

\* discount = random.choice(DISCOUNT_RATES) if random.random() < discount_chance else 0
Discount(is_loyalty, hit, rate) == IF hit THEN rate ELSE 0

\* loyalty_member taken from the discount instead of the customer
TransactionLoyaltyFromDiscount(id, call, infos, discount, store, payment) ==
    [transaction_id       |-> id,
     customer_id          |-> call.customer.customer_id,
     transaction_datetime |-> call.loop.transaction_date,
     store_location       |-> store,
     products             |-> infos,
     payment_method       |-> payment,
     loyalty_member       |-> discount > 0,
     discount_applied     |-> discount]

\* the dict generate_transaction returns
Transaction(id, call, infos, discount, store, payment) ==
    [transaction_id       |-> id,
     customer_id          |-> call.customer.customer_id,
     transaction_datetime |-> call.loop.transaction_date,
     store_location       |-> store,
     products             |-> infos,
     payment_method       |-> payment,
     loyalty_member       |-> call.customer.is_loyalty,
     discount_applied     |-> discount]

----------------------------------------------------------------------------
(* generate_dataset *)

\* total_price cut to whole cents instead of rounded
total_price_truncated(quantity, unit_price, discount_applied) ==
    (quantity * unit_price * (100 - discount_applied)) \div 100

\* total_price = round(quantity * unit_price * (1 - discount_applied), 2)
total_price(quantity, unit_price, discount_applied) ==
    PyRound(quantity * unit_price * (100 - discount_applied), 100)

\* the row appended for one entry of transaction['products']
Row(t, product_info) ==
    [transaction_id       |-> t.transaction_id,
     customer_id          |-> t.customer_id,
     transaction_datetime |-> t.transaction_datetime,
     store_location       |-> t.store_location,
     product_id           |-> product_info.product.product_id,
     product_name         |-> product_info.product.product_name,
     product_category     |-> product_info.product.category,
     quantity             |-> product_info.quantity,
     unit_price           |-> product_info.product.base_price,
     total_price          |-> total_price(product_info.quantity,
                                         product_info.product.base_price,
                                         t.discount_applied),
     payment_method       |-> t.payment_method,
     loyalty_member       |-> t.loyalty_member,
     discount_applied     |-> t.discount_applied]

\* the discount kept on the first line of the basket only
FlattenDiscountFirstLine(t) ==
    [n \in DOMAIN t.products |->
        Row(IF n = 1 THEN t ELSE [t EXCEPT !.discount_applied = 0], t.products[n])]

\* one row for the transaction: the first entry of its basket only
FlattenFirstProduct(t) == [n \in {1} \cap DOMAIN t.products |-> Row(t, t.products[n])]

\* the rows of one transaction, in basket order
Flatten(t) == [n \in DOMAIN t.products |-> Row(t, t.products[n])]

\* The rest of generate_transaction after the loop, and the flattening of
\* the returned transaction by generate_dataset.
SynthesizeTransaction(D) ==
    /\ pc = "basket"
    /\ \E num_items \in BasketSizes(D) :
       \E slots \in [1..num_items -> SlotDraws(D)] :
       \E hit \in BOOLEAN, rate \in D.rates, store \in D.stores, payment \in D.payments :
          /\ \A n \in 1..num_items : SlotList(products, slots[n]) # <<>>
          /\ transaction' =
                Transaction(i + 1, txn,
                            [n \in 1..num_items |-> ProductInfo(products, slots[n])],
                            Discount(txn.customer.is_loyalty, hit, rate),
                            store, payment)
          /\ txn' = [NoCall EXCEPT !.slot = QuantityDrawsMade(slots[num_items])]
    /\ transactions' = transactions \o Flatten(transaction')
    /\ i' = i + 1
    /\ pc' = IF i' < cfg.transactions THEN "select" ELSE "split"
    /\ UNCHANGED <<cfg, customers, products, holiday_weeks, files, error>>
    /\ UNCHANGED appVars

\* random.choice on an empty list raises IndexError; main logs it and re-raises
SynthesizeTransactionFails(D) ==
    /\ pc = "basket"
    /\ \E slot \in SlotDraws(D) : SlotList(products, slot) = <<>>
    /\ pc' = "failed"
    /\ error' = "IndexError"
    /\ UNCHANGED <<cfg, customers, products, holiday_weeks, i, txn, transaction,
                   transactions, files>>
    /\ UNCHANGED appVars

\* every shard started at row 0
ShardStartZero(n, rows_per_file) == 0

\* start_idx = i * rows_per_file
ShardStart(n, rows_per_file) == n * rows_per_file

\* the last shard cut like the others
ShardEndNoRemainder(n, start_idx, rows_per_file, total, k) ==
    start_idx + rows_per_file

\* end_idx = start_idx + rows_per_file if i < FILES_TO_SPLIT - 1 else None
ShardEnd(n, start_idx, rows_per_file, total, k) ==
    IF n < k - 1 THEN start_idx + rows_per_file ELSE total

\* One pass of the loop that writes the shard files.
WriteShard ==
    /\ pc = "split"
    /\ cfg.files >= 1
    /\ LET rows_per_file == Len(transactions) \div cfg.files
           n == Len(files)
           start_idx == ShardStart(n, rows_per_file)
           end_idx == ShardEnd(n, start_idx, rows_per_file, Len(transactions), cfg.files)
       IN  files' = Append(files, Slice(transactions, start_idx, end_idx))
    /\ pc' = IF Len(files') < cfg.files THEN "split" ELSE "done"
    /\ UNCHANGED <<cfg, customers, products, holiday_weeks, i, txn, transaction,
                   transactions, error>>
    /\ UNCHANGED appVars

\* rows_per_file = len(df) // FILES_TO_SPLIT with FILES_TO_SPLIT = 0 raises
\* ZeroDivisionError before any file is written
SplitFails ==
    /\ pc = "split"
    /\ cfg.files = 0
    /\ pc' = "failed"
    /\ error' = "ZeroDivisionError"
    /\ UNCHANGED <<cfg, customers, products, holiday_weeks, i, txn, transaction,
                   transactions, files>>
    /\ UNCHANGED appVars

\* df_chunk.to_csv raises (disk full, no permission): the exception leaves
\* the loop and generate_dataset, main logs it and re-raises; nothing removes
\* the files written by the earlier passes
WriteShardFails ==
    /\ pc = "split"
    /\ cfg.files >= 1
    /\ pc' = "failed"
    /\ error' = "OSError"
    /\ UNCHANGED <<cfg, customers, products, holiday_weeks, i, txn, transaction,
                   transactions, files>>
    /\ UNCHANGED appVars

----------------------------------------------------------------------------
(* grocery_analysis_app.py: the table.  A table is its set of columns and   *)
(* its rows; a row is a function of the columns it has a value for, and a   *)
(* column outside its domain is NaN.                                        *)

\* the columns of the files generate_dataset writes
ExpectedColumns ==
    {"transaction_id", "customer_id", "transaction_datetime", "store_location",
     "product_id", "product_name", "product_category", "quantity", "unit_price",
     "total_price", "payment_method", "loyalty_member", "discount_applied"}

\* the text of a timestamp in a CSV file: its date and its time of day
DatetimeText(ts) == [day |-> ts \div SecondsPerDay, second |-> ts % SecondsPerDay]

\* df_chunk.to_csv(output_file, index=False) of grocery_transactions_{n}.csv
to_csv(n, df_chunk) ==
    [name    |-> n,
     columns |-> ExpectedColumns,
     rows    |-> IF df_chunk = <<>> THEN <<>>
                 ELSE [k \in DOMAIN df_chunk |->
                          [df_chunk[k] EXCEPT !.transaction_datetime = DatetimeText(@)]]]

\* pd.read_csv(file)
read_csv(file) == [columns |-> file.columns, rows |-> file.rows]

\* pd.concat(df_list, ignore_index=True): the union of the columns, the rows
\* in the order of the list, no value where a frame lacks a column
concat(df_list) ==
    [columns |-> UNION {df_list[n].columns : n \in DOMAIN df_list},
     rows    |-> Concat([n \in DOMAIN df_list |-> df_list[n].rows])]

\* a timestamp text pd.to_datetime can parse: a date of 2023, a time of day
Parseable(text) ==
    /\ text.day \in 0..364
    /\ text.second \in 0..(SecondsPerDay - 1)

\* pd.to_datetime of one value
to_datetime(text) == At(text.day, text.second)

\* the row has a value in the column
NotNaN(row, c) == c \in DOMAIN row

\* the frame concatenated from the files of a listing
Joined(listing) == concat([n \in DOMAIN listing |-> read_csv(listing[n])])

\* the table load_data returns for a listing
Loaded(listing) ==
    LET joined == Joined(listing)
    IN  [joined EXCEPT !.rows =
            [n \in DOMAIN joined.rows |->
                IF NotNaN(joined.rows[n], "transaction_datetime")
                THEN [joined.rows[n] EXCEPT !.transaction_datetime = to_datetime(@)]
                ELSE joined.rows[n]]]

\* to_datetime raises on a value it cannot parse; NaN becomes NaT
AllParseable(listing) ==
    \A n \in DOMAIN Joined(listing).rows :
        NotNaN(Joined(listing).rows[n], "transaction_datetime")
            => Parseable(Joined(listing).rows[n].transaction_datetime)

NoTable == [columns |-> {}, rows |-> <<>>]

NoResult == [view |-> "none"]

\* the calls of main that are modelled, in the order main makes them; the two
\* views that segment the customers, which raise on tables of few customers,
\* are called on their own tables in SpecSegments
MainCalls ==
    <<"load_data", "create_store_performance", "create_category_sales",
      "create_payment_distribution", "create_sales_performance_dashboard", "create_inventory_analytics",
      "operational_metrics", "create_operational_efficiency_analysis",
      "create_marketing_analysis", "get_anomaly_metrics", "create_anomaly_detection",
      "get_retention_metrics", "get_geographic_metrics", "create_geographic_analysis",
      "get_financial_metrics", "create_financial_analysis", "end">>

\* the call of main after the call `name`
Following(name) ==
    MainCalls[1 + CHOOSE n \in DOMAIN MainCalls : MainCalls[n] = name]

\* df = load_data()
load_data ==
    /\ step = "load_data"
    /\ output # <<>>
    /\ "transaction_datetime" \in Joined(output).columns
    /\ AllParseable(output)
    /\ df' = Loaded(output)
    /\ step' = Following("load_data")
    /\ UNCHANGED <<output, result, raised>>
    /\ UNCHANGED genVars

\* pd.concat of no frame raises ValueError, df['transaction_datetime'] of a
\* frame without that column KeyError, pd.to_datetime of a text that is no
\* timestamp ValueError; main does not catch them
load_dataFails ==
    /\ step = "load_data"
    /\ \/ /\ output = <<>>
          /\ raised' = "ValueError"
       \/ /\ output # <<>>
          /\ "transaction_datetime" \notin Joined(output).columns
          /\ raised' = "KeyError"
       \/ /\ output # <<>>
          /\ "transaction_datetime" \in Joined(output).columns
          /\ ~AllParseable(output)
          /\ raised' = "ValueError"
    /\ step' = "failed"
    /\ UNCHANGED <<output, df, result>>
    /\ UNCHANGED genVars

----------------------------------------------------------------------------
(* grocery_analysis_app.py: helpers of the views.  Sums of money are in     *)
(* cents; a quotient is kept as its numerator and its denominator, and a    *)
(* denominator of 0 is the inf or NaN numpy returns.                        *)

Index(table) == DOMAIN table.rows

\* the rows whose column c holds v
Where(table, c, v) == {n \in Index(table) : table.rows[n][c] = v}

\* the values of column c in the rows S
Unique(table, S, c) == {table.rows[n][c] : n \in S}

\* Series.sum() of column c over the rows S
RECURSIVE SumOver(_, _, _)
SumOver(table, S, c) ==
    IF S = {} THEN 0
    ELSE LET n == CHOOSE n \in S : TRUE
         IN  table.rows[n][c] + SumOver(table, S \ {n}, c)

\* the values of column c in the rows S, in some order
RECURSIVE Values(_, _, _)
Values(table, S, c) ==
    IF S = {} THEN <<>>
    ELSE LET n == CHOOSE n \in S : TRUE
         IN  <<table.rows[n][c]>> \o Values(table, S \ {n}, c)

Largest(S) == CHOOSE x \in S : \A y \in S : y <= x

Smallest(S) == CHOOSE x \in S : \A y \in S : x <= y

\* sort_values of the values of a column
RECURSIVE sort_values(_)
sort_values(s) ==
    IF s = <<>> THEN <<>>
    ELSE LET k == CHOOSE k \in DOMAIN s : s[k] = Smallest(SeqRange(s))
         IN  <<s[k]>> \o sort_values(SubSeq(s, 1, k - 1) \o SubSeq(s, k + 1, Len(s)))

\* the values of a set in ascending order
RECURSIVE Ascending(_)
Ascending(S) ==
    IF S = {} THEN <<>> ELSE <<Smallest(S)>> \o Ascending(S \ {Smallest(S)})

\* the sum of f over S
RECURSIVE SumOf(_, _)
SumOf(f, S) ==
    IF S = {} THEN 0
    ELSE LET x == CHOOSE x \in S : TRUE
         IN  f[x] + SumOf(f, S \ {x})

\* Series.diff() without its first, undefined entry
diff(s) == [k \in 1..(Len(s) - 1) |-> s[k + 1] - s[k]]

Ratio(num, den) == [num |-> num, den |-> den]

\* timedelta.days
timedelta_days(delta) == delta \div SecondsPerDay

\* (df['transaction_datetime'].max() - df['transaction_datetime'].min()).days
days_spanned(table) ==
    LET moments == Unique(table, Index(table), "transaction_datetime")
    IN  timedelta_days(Largest(moments) - Smallest(moments))

\* df[c] = values
assign(table, c, values) ==
    [columns |-> table.columns \cup {c},
     rows    |-> [n \in Index(table) |->
                    [k \in DOMAIN table.rows[n] \cup {c} |->
                        IF k = c THEN values[n] ELSE table.rows[n][k]]]]

\* .dt.date, as the day of 2023
dt_date(ts) == ts \div SecondsPerDay

\* .dt.isocalendar().week: 2023-01-01 is in week 52 of 2022
dt_week(ts) == IF dt_date(ts) = 0 THEN 52 ELSE (dt_date(ts) - 1) \div 7 + 1

\* the day of 2023 each month starts on
MonthStarts == <<0, 31, 59, 90, 120, 151, 181, 212, 243, 273, 304, 334>>

\* .dt.month
dt_month(ts) == Cardinality({m \in DOMAIN MonthStarts : MonthStarts[m] <= dt_date(ts)})

\* .dt.hour
dt_hour(ts) == (ts % SecondsPerDay) \div (60 * 60)

\* .dt.day_name()
day_name(ts) ==
    <<"Monday", "Tuesday", "Wednesday", "Thursday", "Friday", "Saturday",
      "Sunday">>[weekday(ts) + 1]

is_weekend(ts) == weekday(ts) >= 5

\* Series.mean() of column c over the rows S: NaN (0 over 0) of no row
MeanOver(table, S, c) == Ratio(SumOver(table, S, c), Cardinality(S))

\* groupby(c)[d].sum()
GroupSum(table, c, d) ==
    [v \in Unique(table, Index(table), c) |-> SumOver(table, Where(table, c, v), d)]

\* groupby(c)[d].nunique()
GroupNunique(table, c, d) ==
    [v \in Unique(table, Index(table), c) |->
        Cardinality(Unique(table, Where(table, c, v), d))]

----------------------------------------------------------------------------
(* grocery_analysis_app.py: the views and metrics main calls on the table   *)
(* load_data returned (the figures drawn from the aggregates are left out). *)

\* store_stats: per store the sales, the distinct transactions divided by the
\* distinct customers
store_stats_per_customer(table) ==
    [s \in Unique(table, Index(table), "store_location") |->
        [total_price     |-> SumOver(table, Where(table, "store_location", s), "total_price"),
         transaction_id  |-> Cardinality(Unique(table, Where(table, "store_location", s),
                                                "transaction_id")),
         customer_id     |-> Cardinality(Unique(table, Where(table, "store_location", s),
                                                "customer_id")),
         avg_transaction |->
             Ratio(SumOver(table, Where(table, "store_location", s), "total_price"),
                   Cardinality(Unique(table, Where(table, "store_location", s),
                                      "customer_id")))]]

\* store_stats: per store the sales, the distinct transactions, the distinct
\* customers, and avg_transaction = total_price / transaction_id
store_stats(table) ==
    [s \in Unique(table, Index(table), "store_location") |->
        [total_price     |-> SumOver(table, Where(table, "store_location", s), "total_price"),
         transaction_id  |-> Cardinality(Unique(table, Where(table, "store_location", s),
                                                "transaction_id")),
         customer_id     |-> Cardinality(Unique(table, Where(table, "store_location", s),
                                                "customer_id")),
         avg_transaction |->
             Ratio(SumOver(table, Where(table, "store_location", s), "total_price"),
                   Cardinality(Unique(table, Where(table, "store_location", s),
                                      "transaction_id")))]]

create_store_performance ==
    /\ step = "create_store_performance"
    /\ result' = [view |-> "create_store_performance", store_stats |-> store_stats(df)]
    /\ step' = Following("create_store_performance")
    /\ UNCHANGED <<output, df, raised>>
    /\ UNCHANGED genVars

\* category_stats: per category the sales, the units, the distinct
\* transactions, and avg_price_per_item = total_price / quantity
category_stats(table) ==
    [c \in Unique(table, Index(table), "product_category") |->
        [total_price    |-> SumOver(table, Where(table, "product_category", c),
                                    "total_price"),
         quantity       |-> SumOver(table, Where(table, "product_category", c), "quantity"),
         transaction_id |-> Cardinality(Unique(table, Where(table, "product_category", c),
                                               "transaction_id")),
         avg_price_per_item |->
             Ratio(SumOver(table, Where(table, "product_category", c), "total_price"),
                   SumOver(table, Where(table, "product_category", c), "quantity"))]]

create_category_sales ==
    /\ step = "create_category_sales"
    /\ result' = [view |-> "create_category_sales", category_stats |-> category_stats(df)]
    /\ step' = Following("create_category_sales")
    /\ UNCHANGED <<output, df, raised>>
    /\ UNCHANGED genVars

\* payment_stats: per payment method the distinct transactions, the sales,
\* and percentage = transaction_id / transaction_id.sum() * 100
payment_stats(table) ==
    LET count == GroupNunique(table, "payment_method", "transaction_id")
    IN  [p \in Unique(table, Index(table), "payment_method") |->
            [transaction_id |-> count[p],
             total_price    |-> SumOver(table, Where(table, "payment_method", p),
                                        "total_price"),
             percentage     |-> Ratio(100 * count[p], SumOf(count, DOMAIN count))]]

create_payment_distribution ==
    /\ step = "create_payment_distribution"
    /\ result' = [view |-> "create_payment_distribution",
                  payment_stats |-> payment_stats(df)]
    /\ step' = Following("create_payment_distribution")
    /\ UNCHANGED <<output, df, raised>>
    /\ UNCHANGED genVars

\* .dt.strftime('%a'), the short name of the day of the week
short_day_name(ts) ==
    <<"Mon", "Tue", "Wed", "Thu", "Fri", "Sat", "Sun">>[weekday(ts) + 1]

\* weekly_stats: per week and weekday the sales and the distinct transactions
weekly_stats(table) ==
    [key \in {<<table.rows[n].week, table.rows[n].weekday>> : n \in Index(table)} |->
        LET rows == {n \in Index(table) : /\ table.rows[n].week = key[1]
                                          /\ table.rows[n].weekday = key[2]}
        IN  [total_price    |-> SumOver(table, rows, "total_price"),
             transaction_id |-> Cardinality(Unique(table, rows, "transaction_id"))]]

\* weekday_avg: per weekday the mean total_price and the distinct transactions
weekday_avg(table) ==
    [d \in Unique(table, Index(table), "weekday") |->
        [total_price    |-> MeanOver(table, Where(table, "weekday", d), "total_price"),
         transaction_id |-> Cardinality(Unique(table, Where(table, "weekday", d),
                                               "transaction_id"))]]

\* create_weekly_trends with the weekday written as its short name
create_weekly_trends_short ==
    /\ step = "create_weekly_trends"
    /\ df' = assign(assign(df,
                "week", [n \in Index(df) |-> dt_week(df.rows[n].transaction_datetime)]),
                "weekday", [n \in Index(df) |-> short_day_name(df.rows[n].transaction_datetime)])
    /\ result' = [view        |-> "create_weekly_trends",
                  weekly_stats |-> weekly_stats(df'),
                  weekday_avg  |-> weekday_avg(df')]
    /\ step' = "end"
    /\ UNCHANGED <<output, raised>>
    /\ UNCHANGED genVars

\* the two columns create_weekly_trends adds to df, then its aggregations;
\* main does not call it
create_weekly_trends ==
    /\ step = "create_weekly_trends"
    /\ df' = assign(assign(df,
                "week", [n \in Index(df) |-> dt_week(df.rows[n].transaction_datetime)]),
                "weekday", [n \in Index(df) |-> day_name(df.rows[n].transaction_datetime)])
    /\ result' = [view        |-> "create_weekly_trends",
                  weekly_stats |-> weekly_stats(df'),
                  weekday_avg  |-> weekday_avg(df')]
    /\ step' = "end"
    /\ UNCHANGED <<output, raised>>
    /\ UNCHANGED genVars

\* pd.cut(month, bins=[0, 3, 6, 9, 12], labels=['Winter', 'Spring', 'Summer', 'Fall'])
season(month) ==
    <<"Winter", "Spring", "Summer", "Fall">>[(month + 2) \div 3]

\* monthly_stats: per month the sales, the distinct transactions, the units
monthly_stats(table) ==
    [m \in Unique(table, Index(table), "month") |->
        [total_price    |-> SumOver(table, Where(table, "month", m), "total_price"),
         transaction_id |-> Cardinality(Unique(table, Where(table, "month", m),
                                               "transaction_id")),
         quantity       |-> SumOver(table, Where(table, "month", m), "quantity")]]

\* seasonal_stats: the sales of each season and category that has rows
seasonal_stats(table) ==
    [key \in {<<table.rows[n].season, table.rows[n].product_category>> :
                 n \in Index(table)} |->
        SumOver(table, {n \in Where(table, "season", key[1]) :
                           table.rows[n].product_category = key[2]},
                "total_price")]

\* the two columns create_seasonality_analysis adds to df, then its
\* aggregations; main does not call it
create_seasonality_analysis ==
    /\ step = "create_seasonality_analysis"
    /\ df' = assign(assign(df,
                "month", [n \in Index(df) |-> dt_month(df.rows[n].transaction_datetime)]),
                "season", [n \in Index(df) |->
                              season(dt_month(df.rows[n].transaction_datetime))])
    /\ result' = [view           |-> "create_seasonality_analysis",
                  monthly_stats  |-> monthly_stats(df'),
                  seasonal_stats |-> seasonal_stats(df')]
    /\ step' = "end"
    /\ UNCHANGED <<output, raised>>
    /\ UNCHANGED genVars

\* the four columns create_sales_performance_dashboard adds to df, then its
\* daily, weekly and category aggregations
create_sales_performance_dashboard ==
    /\ step = "create_sales_performance_dashboard"
    /\ df' = assign(assign(assign(assign(df,
                "date", [n \in Index(df) |-> dt_date(df.rows[n].transaction_datetime)]),
                "week", [n \in Index(df) |-> dt_week(df.rows[n].transaction_datetime)]),
                "month", [n \in Index(df) |-> dt_month(df.rows[n].transaction_datetime)]),
                "is_weekend", [n \in Index(df) |-> is_weekend(df.rows[n].transaction_datetime)])
    /\ result' = [view           |-> "create_sales_performance_dashboard",
                  daily_sales    |-> GroupSum(df', "date", "total_price"),
                  weekly_sales   |-> GroupSum(df', "week", "total_price"),
                  category_sales |-> GroupSum(df', "product_category", "total_price")]
    /\ step' = Following("create_sales_performance_dashboard")
    /\ UNCHANGED <<output, raised>>
    /\ UNCHANGED genVars

\* product_movement['daily_sales_rate'] = product_movement['quantity'] / days_in_data
daily_sales_rate(table) ==
    [p \in Unique(table, Index(table), "product_id") |->
        Ratio(SumOver(table, Where(table, "product_id", p), "quantity"),
              days_spanned(table))]

\* category_turnover['turnover_rate'] = category_turnover['quantity'] / days_in_data * 30
turnover_rate(table) ==
    [c \in Unique(table, Index(table), "product_category") |->
        Ratio(30 * SumOver(table, Where(table, "product_category", c), "quantity"),
              days_spanned(table))]

create_inventory_analytics ==
    /\ step = "create_inventory_analytics"
    /\ result' = [view             |-> "create_inventory_analytics",
                  days_in_data     |-> days_spanned(df),
                  daily_sales_rate |-> daily_sales_rate(df),
                  turnover_rate    |-> turnover_rate(df)]
    /\ step' = Following("create_inventory_analytics")
    /\ UNCHANGED <<output, df, raised>>
    /\ UNCHANGED genVars

\* weekend_ratio of main: the weekend sales over the weekday sales, in percent
weekend_ratio(table) ==
    Ratio(100 * SumOver(table, {n \in Index(table) :
                                    is_weekend(table.rows[n].transaction_datetime)},
                        "total_price"),
          SumOver(table, {n \in Index(table) :
                              ~is_weekend(table.rows[n].transaction_datetime)},
                  "total_price"))

\* the operational metrics main computes itself
operational_metrics ==
    /\ step = "operational_metrics"
    /\ result' = [view          |-> "operational_metrics",
                  weekend_ratio |-> weekend_ratio(df)]
    /\ step' = Following("operational_metrics")
    /\ UNCHANGED <<output, df, raised>>
    /\ UNCHANGED genVars

\* df.sort_values(['store_location', 'transaction_datetime']), then the diff
\* of transaction_datetime within each store, in seconds
time_between_transactions(table) ==
    [s \in Unique(table, Index(table), "store_location") |->
        diff(sort_values(Values(table, Where(table, "store_location", s),
                                "transaction_datetime")))]

\* groupby(['weekday', 'hour'])['transaction_id'].nunique()
hourly_pattern(table) ==
    [slot \in {<<table.rows[n].weekday, table.rows[n].hour>> : n \in Index(table)} |->
        Cardinality(Unique(table,
                           {n \in Index(table) : /\ table.rows[n].weekday = slot[1]
                                                 /\ table.rows[n].hour = slot[2]},
                           "transaction_id"))]

create_operational_efficiency_analysis ==
    /\ step = "create_operational_efficiency_analysis"
    /\ df' = assign(assign(assign(df,
                "hour", [n \in Index(df) |-> dt_hour(df.rows[n].transaction_datetime)]),
                "weekday", [n \in Index(df) |-> day_name(df.rows[n].transaction_datetime)]),
                "is_weekend", [n \in Index(df) |-> is_weekend(df.rows[n].transaction_datetime)])
    /\ result' = [view                      |-> "create_operational_efficiency_analysis",
                  hourly_pattern            |-> hourly_pattern(df'),
                  time_between_transactions |-> time_between_transactions(df')]
    /\ step' = Following("create_operational_efficiency_analysis")
    /\ UNCHANGED <<output, raised>>
    /\ UNCHANGED genVars

\* strftime('%m-%d') is one of 12-25, 11-23, 07-04, 01-01
is_holiday(ts) == dt_date(ts) \in {358, 326, 184, 0}

\* discount_impact: per discount, the sales over the number of transactions
discount_impact(table) ==
    [d \in Unique(table, Index(table), "discount_applied") |->
        Ratio(SumOver(table, Where(table, "discount_applied", d), "total_price"),
              Cardinality(Unique(table, Where(table, "discount_applied", d),
                                 "transaction_id")))]

create_marketing_analysis ==
    /\ step = "create_marketing_analysis"
    /\ df' = assign(df, "is_holiday", [n \in Index(df) |-> is_holiday(df.rows[n].transaction_datetime)])
    /\ result' = [view             |-> "create_marketing_analysis",
                  discount_impact  |-> discount_impact(df'),
                  total_sales      |-> GroupSum(df', "is_holiday", "total_price"),
                  num_transactions |-> GroupNunique(df', "is_holiday", "transaction_id")]
    /\ step' = Following("create_marketing_analysis")
    /\ UNCHANGED <<output, raised>>
    /\ UNCHANGED genVars

\* the sum over the rows S of the squares of count * value - total
RECURSIVE SumSquares(_, _, _, _, _)
SumSquares(table, S, c, count, total) ==
    IF S = {} THEN 0
    ELSE LET n == CHOOSE n \in S : TRUE
             deviation == count * table.rows[n][c] - total
         IN  deviation * deviation + SumSquares(table, S \ {n}, c, count, total)

\* the z-score of column c in row n against the rows of its product:
\* (value - mean) / std, where the std of groupby().agg('std') is the sample
\* standard deviation: NaN for a single row, 0 for equal values.  The score
\* is kept exactly: its numerator count * value - total, and what it is
\* divided by.  replace_zero is the replace(0, 1) of get_anomaly_metrics.
zscore(table, n, c, replace_zero) ==
    LET group == Where(table, "product_id", table.rows[n].product_id)
        count == Cardinality(group)
        total == SumOver(table, group, c)
        squares == SumSquares(table, group, c, count, total)
    IN  [deviation |-> count * table.rows[n][c] - total,
         count     |-> count,
         squares   |-> squares,
         std       |-> IF count = 1 THEN "NaN"
                       ELSE IF squares # 0 THEN "positive"
                       ELSE IF replace_zero THEN "1" ELSE "0"]

\* abs(zscore) > 3; a comparison with NaN is False
Above3(z) ==
    CASE z.std = "NaN" -> FALSE
      [] z.std = "0" -> FALSE
      [] z.std = "1" -> z.deviation * z.deviation > 9 * z.count * z.count
      [] z.std = "positive" ->
            z.deviation * z.deviation * (z.count - 1) > 9 * z.squares

\* total_price > 3 times the mean total_price of the category
high_value(table, n) ==
    LET group == Where(table, "product_category", table.rows[n].product_category)
    IN  table.rows[n].total_price * Cardinality(group)
            > 3 * SumOver(table, group, "total_price")

get_anomaly_metrics ==
    /\ step = "get_anomaly_metrics"
    /\ LET quantity_zscore == [n \in Index(df) |-> zscore(df, n, "quantity", TRUE)]
           price_zscore == [n \in Index(df) |-> zscore(df, n, "unit_price", TRUE)]
       IN  result' =
               [view               |-> "get_anomaly_metrics",
                quantity_zscore    |-> quantity_zscore,
                price_zscore       |-> price_zscore,
                quantity_anomalies |->
                    Ratio(100 * Cardinality({n \in Index(df) : Above3(quantity_zscore[n])}),
                          Len(df.rows)),
                price_anomalies    |->
                    Ratio(100 * Cardinality({n \in Index(df) : Above3(price_zscore[n])}),
                          Len(df.rows)),
                high_value_transactions |->
                    Ratio(100 * Cardinality({n \in Index(df) : high_value(df, n)}),
                          Len(df.rows))]
    /\ step' = Following("get_anomaly_metrics")
    /\ UNCHANGED <<output, df, raised>>
    /\ UNCHANGED genVars

\* the z-scores of create_anomaly_detection: the std is used as it is
create_anomaly_detection ==
    /\ step = "create_anomaly_detection"
    /\ result' = [view            |-> "create_anomaly_detection",
                  quantity_zscore |-> [n \in Index(df) |-> zscore(df, n, "quantity", FALSE)],
                  price_zscore    |-> [n \in Index(df) |-> zscore(df, n, "unit_price", FALSE)]]
    /\ step' = Following("create_anomaly_detection")
    /\ UNCHANGED <<output, df, raised>>
    /\ UNCHANGED genVars

\* repeat_customers = df.groupby('customer_id')['transaction_id'].nunique()
repeat_customers(table) == GroupNunique(table, "customer_id", "transaction_id")

\* the days since the last purchase counted between calendar dates
days_since_purchase_by_date(table, customer) ==
    dt_date(Largest(Unique(table, Index(table), "transaction_datetime")))
        - dt_date(Largest(Unique(table, Where(table, "customer_id", customer),
                                 "transaction_datetime")))

\* days_since_purchase = (last_purchase_date - customer_last_purchase).dt.days
days_since_purchase(table, customer) ==
    timedelta_days(Largest(Unique(table, Index(table), "transaction_datetime"))
                   - Largest(Unique(table, Where(table, "customer_id", customer),
                                    "transaction_datetime")))

\* (repeat_rate, avg_monthly_frequency, churn_risk)
retention_metrics(table) ==
    LET customer_ids == Unique(table, Index(table), "customer_id")
        total_customers == Cardinality(customer_ids)
        purchases == repeat_customers(table)
        total == SumOf(purchases, customer_ids)
    IN  [repeat_rate |->
             Ratio(100 * Cardinality({c \in customer_ids : purchases[c] > 1}),
                   total_customers),
         avg_monthly_frequency |->
             Ratio(30 * total, total_customers * days_spanned(table)),
         churn_risk |->
             Ratio(100 * Cardinality({c \in customer_ids :
                                         days_since_purchase(table, c) > 90}),
                   total_customers)]

get_retention_metrics ==
    /\ step = "get_retention_metrics"
    /\ result' = [view                  |-> "get_retention_metrics",
                  repeat_rate           |-> retention_metrics(df).repeat_rate,
                  avg_monthly_frequency |-> retention_metrics(df).avg_monthly_frequency,
                  churn_risk            |-> retention_metrics(df).churn_risk]
    /\ step' = Following("get_retention_metrics")
    /\ UNCHANGED <<output, df, raised>>
    /\ UNCHANGED genVars

\* the values of a series, one per key, in ascending order
SortedValues(series) ==
    sort_values([n \in 1..Cardinality(DOMAIN series) |->
                    series[Ascending(DOMAIN series)[n]]])

\* 3 times the quantile k/3 of a series, by linear interpolation between the
\* two sorted values around position k * (n - 1) / 3
Quantile3(series, k) ==
    LET sorted == SortedValues(series)
        h == k * (Len(sorted) - 1)
    IN  IF h % 3 = 0 THEN 3 * sorted[h \div 3 + 1]
        ELSE 3 * sorted[h \div 3 + 1]
                 + (h % 3) * (sorted[h \div 3 + 2] - sorted[h \div 3 + 1])

\* the bin edges of pd.qcut(series, q=3) are unique
UniqueEdges(series) ==
    \A k \in 1..3 : Quantile3(series, k - 1) < Quantile3(series, k)

\* pd.qcut(series, q=3, labels=labels): bin k holds the values above edge
\* k - 1 up to edge k, the first bin its lower edge too
qcut(series, labels) ==
    [c \in DOMAIN series |->
        labels[Smallest({k \in 1..3 : 3 * series[c] <= Quantile3(series, k)})]]

\* customer_metrics: per customer the distinct transactions and the spend
customer_transactions(table) == GroupNunique(table, "customer_id", "transaction_id")

customer_spend(table) == GroupSum(table, "customer_id", "total_price")

\* customer_metrics with the two segments and the projected annual value:
\* total_price / months_in_data * 12 with months_in_data = days / 30
customer_metrics(table) ==
    [c \in Unique(table, Index(table), "customer_id") |->
        [transaction_id    |-> customer_transactions(table)[c],
         total_price       |-> customer_spend(table)[c],
         frequency_segment |->
             qcut(customer_transactions(table),
                  <<"Occasional", "Regular", "Frequent">>)[c],
         spend_segment     |->
             qcut(customer_spend(table),
                  <<"Low Spender", "Medium Spender", "High Spender">>)[c],
         projected_annual_value |->
             Ratio(12 * 30 * customer_spend(table)[c], days_spanned(table))]]

create_customer_behavior_analysis ==
    /\ step = "create_customer_behavior_analysis"
    /\ UniqueEdges(customer_transactions(df))
    /\ UniqueEdges(customer_spend(df))
    /\ result' = [view |-> "create_customer_behavior_analysis",
                  customer_metrics |-> customer_metrics(df)]
    /\ step' = "end"
    /\ UNCHANGED <<output, df, raised>>
    /\ UNCHANGED genVars

\* pd.qcut raises ValueError (bin edges must be unique) when two of the four
\* quantiles 0, 1/3, 2/3 and 1 are equal
create_customer_behavior_analysisFails ==
    /\ step = "create_customer_behavior_analysis"
    /\ \/ ~UniqueEdges(customer_transactions(df))
       \/ ~UniqueEdges(customer_spend(df))
    /\ raised' = "ValueError"
    /\ step' = "failed"
    /\ UNCHANGED <<output, df, result>>
    /\ UNCHANGED genVars

\* pd.cut(days, bins=[0, 30, 60, 90, inf], labels=risk_labels): the bins are
\* open below and closed above, and a value in no bin gets NaN
churn_risk(days) ==
    CASE 0 < days /\ days <= 30  -> "Low"
      [] 30 < days /\ days <= 60 -> "Medium"
      [] 60 < days /\ days <= 90 -> "High"
      [] 90 < days               -> "Very High"
      [] OTHER                   -> "NaN"

\* customer_last_purchase with days_since_purchase and churn_risk
customer_last_purchase(table) ==
    [c \in Unique(table, Index(table), "customer_id") |->
        [days_since_purchase |-> days_since_purchase(table, c),
         churn_risk          |-> churn_risk(days_since_purchase(table, c))]]

\* value_counts() of a column of labels: NaN is not counted
value_counts(column, labels) ==
    [label \in SeqRange(labels) |->
        Cardinality({c \in DOMAIN column : column[c] = label})]

create_retention_analysis ==
    /\ step = "create_retention_analysis"
    /\ UniqueEdges(customer_transactions(df))
    /\ LET last == customer_last_purchase(df)
           segments == qcut(customer_transactions(df), <<"Low", "Medium", "High">>)
       IN  result' =
               [view |-> "create_retention_analysis",
                customer_last_purchase |-> last,
                frequency_segments     |-> segments,
                retention_by_segment   |->
                    value_counts(segments, <<"Low", "Medium", "High">>),
                churn_risk_counts      |->
                    value_counts([c \in DOMAIN last |-> last[c].churn_risk],
                                 <<"Low", "Medium", "High", "Very High">>)]
    /\ step' = "end"
    /\ UNCHANGED <<output, df, raised>>
    /\ UNCHANGED genVars

\* pd.qcut of the purchase frequencies raises ValueError before the churn
\* risk is computed
create_retention_analysisFails ==
    /\ step = "create_retention_analysis"
    /\ ~UniqueEdges(customer_transactions(df))
    /\ raised' = "ValueError"
    /\ step' = "failed"
    /\ UNCHANGED <<output, df, result>>
    /\ UNCHANGED genVars

\* 'Urban' if x in urban_locations else 'Suburban' if x in suburban_locations else 'Other'
location_type(store_location) ==
    IF store_location \in {"Downtown"} THEN "Urban"
    ELSE IF store_location \in {"Suburb North", "Suburb South"} THEN "Suburban"
    ELSE "Other"

\* df['location_type'] = df['store_location'].apply(...)
with_location_type(table) ==
    assign(table, "location_type",
           [n \in Index(table) |-> location_type(table.rows[n].store_location)])

get_geographic_metrics ==
    /\ step = "get_geographic_metrics"
    /\ df' = with_location_type(df)
    /\ LET urban == Where(df', "location_type", "Urban")
           suburban == Where(df', "location_type", "Suburban")
       IN  result' =
               [view                     |-> "get_geographic_metrics",
                urban_avg_transaction    |-> MeanOver(df', urban, "total_price"),
                suburban_avg_transaction |-> MeanOver(df', suburban, "total_price"),
                urban_loyalty_rate       |->
                    Ratio(100 * Cardinality({n \in urban : df'.rows[n].loyalty_member}),
                          Cardinality(urban))]
    /\ step' = Following("get_geographic_metrics")
    /\ UNCHANGED <<output, raised>>
    /\ UNCHANGED genVars

\* regional_prefs['percentage'] = regional_prefs['quantity'] / location_totals * 100
regional_prefs(table) ==
    [key \in {<<table.rows[n].store_location, table.rows[n].product_category>> :
                 n \in Index(table)} |->
        Ratio(100 * SumOver(table, {n \in Where(table, "store_location", key[1]) :
                                       table.rows[n].product_category = key[2]},
                            "quantity"),
              SumOver(table, Where(table, "store_location", key[1]), "quantity"))]

\* the box trace "Transaction Size by Location": x is the store_location
\* column, one entry per row in the order of the rows; y is
\* df.groupby('transaction_id')['total_price'].sum(), one entry per
\* transaction in the order of the transaction ids
transaction_size(table) ==
    LET ids == Ascending(Unique(table, Index(table), "transaction_id"))
    IN  [x |-> [n \in Index(table) |-> table.rows[n].store_location],
         y |-> [k \in DOMAIN ids |->
                   SumOver(table, Where(table, "transaction_id", ids[k]), "total_price")]]

\* location_metrics: the mean total_price of each location type
location_metrics(table) ==
    [t \in Unique(table, Index(table), "location_type") |->
        MeanOver(table, Where(table, "location_type", t), "total_price")]

\* the aggregates of create_geographic_analysis
geographic_analysis(table) ==
    [view             |-> "create_geographic_analysis",
     regional_prefs   |-> regional_prefs(table),
     transaction_size |-> transaction_size(table),
     location_metrics |-> location_metrics(with_location_type(table))]

create_geographic_analysis ==
    /\ step = "create_geographic_analysis"
    /\ df' = with_location_type(df)
    /\ result' = geographic_analysis(df)
    /\ step' = Following("create_geographic_analysis")
    /\ UNCHANGED <<output, raised>>
    /\ UNCHANGED genVars

\* the dict category_margins of get_financial_metrics, in percent
financial_metrics_margins ==
    "Organic" :> 45 @@ "Meat" :> 35 @@ "Dairy" :> 30 @@ "Produce" :> 25
        @@ "Bakery" :> 40 @@ "Frozen Foods" :> 35 @@ "Snacks" :> 50
        @@ "Beverages" :> 45 @@ "Pantry" :> 40 @@ "Personal Care" :> 55

\* a margin of 10 percent in every category
category_margins_thin(category) == 10

\* df_finance['product_category'].map(category_margins)
category_margins(category) == financial_metrics_margins[category]

\* margin = total_price - unit_cost * quantity with
\* unit_cost = unit_price * (1 - margin_percentage), in hundredths of a cent
margin(row) ==
    100 * row.total_price
        - row.unit_price * (100 - category_margins(row.product_category)) * row.quantity

\* df_finance: a copy of the table with the margin column
df_finance(table) ==
    assign(table, "margin", [n \in Index(table) |-> margin(table.rows[n])])

\* the categories in the order groupby lists them
SortedCategories ==
    <<"Bakery", "Beverages", "Dairy", "Frozen Foods", "Meat", "Organic", "Pantry",
      "Personal Care", "Produce", "Snacks">>

\* margin_percent of each category, then idxmax: the first category, in the
\* order of the groups, that no category exceeds
highest_margin_category(finance) ==
    LET present == {k \in DOMAIN SortedCategories :
                       Where(finance, "product_category", SortedCategories[k]) # {}}
        percent(k) ==
            Ratio(SumOver(finance, Where(finance, "product_category", SortedCategories[k]),
                          "margin"),
                  SumOver(finance, Where(finance, "product_category", SortedCategories[k]),
                          "total_price"))
        exceeds(a, b) == percent(a).num * percent(b).den > percent(b).num * percent(a).den
    IN  SortedCategories[Smallest({k \in present : \A other \in present \ {k} : ~exceeds(other, k)})]

get_financial_metrics ==
    /\ step = "get_financial_metrics"
    /\ LET finance == df_finance(df)
           discounted == {n \in Index(finance) : finance.rows[n].discount_applied > 0}
       IN  result' =
               [view            |-> "get_financial_metrics",
                overall_margin  |-> Ratio(SumOver(finance, Index(finance), "margin"),
                                          SumOver(finance, Index(finance), "total_price")),
                discount_margin |-> Ratio(SumOver(finance, discounted, "margin"),
                                          SumOver(finance, discounted, "total_price")),
                highest_margin_category |-> highest_margin_category(finance),
                margin |-> [n \in Index(finance) |-> finance.rows[n].margin],
                margin_percentage |->
                    [n \in Index(finance) |->
                        category_margins(finance.rows[n].product_category)]]
    /\ step' = Following("get_financial_metrics")
    /\ UNCHANGED <<output, df, raised>>
    /\ UNCHANGED genVars

\* the dict category_margins of create_financial_analysis, in percent
financial_analysis_margins ==
    "Organic" :> 45 @@ "Meat" :> 35 @@ "Dairy" :> 30 @@ "Produce" :> 25
        @@ "Bakery" :> 40 @@ "Frozen Foods" :> 35 @@ "Snacks" :> 50
        @@ "Beverages" :> 45 @@ "Pantry" :> 40 @@ "Personal Care" :> 55

\* df_finance['product_category'].map(category_margins) of
\* create_financial_analysis
category_margins_analysis(category) == financial_analysis_margins[category]

\* the margin of a line without the quantity of the line
margin_analysis_per_unit(row) ==
    100 * row.total_price
        - row.unit_price * (100 - category_margins_analysis(row.product_category))

\* df_finance['margin'] of create_financial_analysis, in hundredths of a cent
margin_analysis(row) ==
    100 * row.total_price
        - row.unit_price * (100 - category_margins_analysis(row.product_category))
              * row.quantity

\* df_finance of create_financial_analysis
df_finance_analysis(table) ==
    assign(table, "margin", [n \in Index(table) |-> margin_analysis(table.rows[n])])

\* category_profits: per category the sums of total_price and margin, and
\* margin_percent = margin / total_price * 100
category_profits(finance) ==
    [c \in Unique(finance, Index(finance), "product_category") |->
        [total_price    |-> SumOver(finance, Where(finance, "product_category", c),
                                    "total_price"),
         margin         |-> SumOver(finance, Where(finance, "product_category", c),
                                    "margin"),
         margin_percent |->
             Ratio(SumOver(finance, Where(finance, "product_category", c), "margin"),
                   SumOver(finance, Where(finance, "product_category", c),
                           "total_price"))]]

\* discount_impact of create_financial_analysis: per discount the sums of
\* total_price, margin and quantity
finance_discount_impact(finance) ==
    [d \in Unique(finance, Index(finance), "discount_applied") |->
        [total_price |-> SumOver(finance, Where(finance, "discount_applied", d),
                                 "total_price"),
         margin      |-> SumOver(finance, Where(finance, "discount_applied", d),
                                 "margin"),
         quantity    |-> SumOver(finance, Where(finance, "discount_applied", d),
                                 "quantity")]]

\* daily_profits: per date the sums of margin and total_price, and
\* margin_percent = margin / total_price * 100
daily_profits(finance) ==
    [day \in {dt_date(finance.rows[n].transaction_datetime) : n \in Index(finance)} |->
        LET rows == {n \in Index(finance) :
                        dt_date(finance.rows[n].transaction_datetime) = day}
        IN  [margin         |-> SumOver(finance, rows, "margin"),
             total_price    |-> SumOver(finance, rows, "total_price"),
             margin_percent |-> Ratio(SumOver(finance, rows, "margin"),
                                      SumOver(finance, rows, "total_price"))]]

create_financial_analysis ==
    /\ step = "create_financial_analysis"
    /\ LET finance == df_finance_analysis(df)
       IN  result' =
               [view            |-> "create_financial_analysis",
                category_profits |-> category_profits(finance),
                discount_impact  |-> finance_discount_impact(finance),
                daily_profits    |-> daily_profits(finance),
                margin |-> [n \in Index(finance) |-> finance.rows[n].margin],
                margin_percentage |->
                    [n \in Index(finance) |->
                        category_margins_analysis(finance.rows[n].product_category)]]
    /\ step' = Following("create_financial_analysis")
    /\ UNCHANGED <<output, df, raised>>
    /\ UNCHANGED genVars

----------------------------------------------------------------------------
(* The files given to the app: tables of a few purchases, written as the    *)
(* generator writes them, and listed in an order glob.glob may return.      *)

\* a catalog: two products, then three of every category, at the lowest,
\* the middle and the highest price of the category
AppCatalog ==
    <<Product(0, "Dairy", 1, 0, 1), Product(1, "Produce", 1, 0, 1)>>
        \o [n \in 1..(3 * Len(CategoryNames)) |->
               Product(n + 1, CategoryNames[(n - 1) \div 3 + 1], 1, (n - 1) % 3, 1)]

\* the purchases of one family of inputs
Purchases(D) ==
    [customer : D.customers, clock : D.clock, store : D.stores,
     discount : D.discounts, payment : D.payments,
     lines : UNION {[1..l -> D.products \X D.quantities] : l \in D.lines}]

\* the rows generate_dataset appends for a sequence of purchases
Table(purchases) ==
    Concat([n \in DOMAIN purchases |->
              Flatten(Transaction(
                  n,
                  [customer |-> Customer(purchases[n].customer, purchases[n].customer = 1),
                   loop |-> [transaction_date |-> purchases[n].clock]],
                  [k \in DOMAIN purchases[n].lines |->
                      [product  |-> AppCatalog[purchases[n].lines[k][1]],
                       quantity |-> purchases[n].lines[k][2]]],
                  purchases[n].discount, purchases[n].store, purchases[n].payment))])

\* the k shard files generate_dataset writes for a table
Shards(rows, k) ==
    [n \in 1..k |->
        to_csv(n, Slice(rows,
                        ShardStart(n - 1, Len(rows) \div k),
                        ShardEnd(n - 1, ShardStart(n - 1, Len(rows) \div k),
                                 Len(rows) \div k, Len(rows), k)))]

Reverse(s) == [n \in DOMAIN s |-> s[Len(s) + 1 - n]]

\* glob.glob returns the files in an order the file system chooses
Listing(shards, order) == IF order = "sorted" THEN shards ELSE Reverse(shards)

Directories(D) ==
    {Listing(Shards(Table(purchases), k), order) :
        purchases \in UNION {[1..b -> Purchases(D)] : b \in D.baskets},
        k \in D.shards, order \in D.orders}

\* products with few lines and few quantities
AnomalyInputs ==
    [customers |-> {1}, clock |-> {At(1, 10 * 60 * 60)}, stores |-> {"Downtown"},
     discounts |-> {0}, products |-> {1, 2}, quantities |-> {1, 2},
     baskets |-> {1}, lines |-> 1..MaxBasketLines, shards |-> {1},
     orders |-> {"sorted"}, payments |-> {"Cash"}]

\* a Monday and the Saturday after it; with and without discount
CalendarInputs ==
    [customers |-> {1},
     clock |-> {At(1, 10 * 60 * 60), At(6, 10 * 60 * 60)},
     stores |-> {"Downtown"}, discounts |-> {0, 10}, products |-> {1},
     quantities |-> {1}, baskets |-> 1..MaxBaskets, lines |-> {1}, shards |-> {1},
     orders |-> {"sorted"}, payments |-> {"Cash"}]

\* several stores, several files, both orders of the files
ShardInputs ==
    [customers |-> {1}, clock |-> {At(1, 10 * 60 * 60)},
     stores |-> {"Downtown", "Coastal"}, discounts |-> {0}, products |-> {1},
     quantities |-> {1, 2}, baskets |-> 1..MaxBaskets, lines |-> {1},
     shards |-> 1..MaxFiles, orders |-> {"sorted", "reversed"}, payments |-> {"Cash"}]

\* two customers; purchases of two lines 91 days, 90 days and a half, and no
\* time before the last one
RetentionInputs ==
    [customers |-> {1, 2},
     clock |-> {At(0, 0), At(0, 12 * 60 * 60), At(91, 0)},
     stores |-> {"Downtown"}, discounts |-> {0}, products |-> {1},
     quantities |-> {1}, baskets |-> 1..MaxBaskets, lines |-> {2}, shards |-> {1},
     orders |-> {"sorted"}, payments |-> {"Cash"}]

\* two purchases of two customers, at two stores, of two categories, paid in
\* two ways
BreakdownInputs ==
    [customers |-> {1, 2}, clock |-> {At(1, 10 * 60 * 60)},
     stores |-> {"Downtown", "Coastal"}, discounts |-> {0}, products |-> {1, 2},
     quantities |-> {2}, baskets |-> {2}, lines |-> {1}, shards |-> {1},
     orders |-> {"sorted"}, payments |-> {"Cash", "Credit Card"}]

\* up to three customers with purchases of one or two units, on the last day
\* of the table or 91 days before it
SegmentInputs ==
    [customers |-> {1, 2, 3}, clock |-> {At(0, 0), At(91, 0)},
     stores |-> {"Downtown"}, discounts |-> {0}, products |-> {1},
     quantities |-> {1, 2}, baskets |-> 1..MaxBaskets, lines |-> {1}, shards |-> {1},
     orders |-> {"sorted"}, payments |-> {"Cash"}]

\* two purchases, each on the holiday Sunday 2023-01-01 or on a Saturday in
\* April, each at a store in town or on the coast
OrderInputs ==
    [customers |-> {1}, clock |-> {At(0, 10 * 60 * 60), At(104, 15 * 60 * 60)},
     stores |-> {"Downtown", "Coastal"}, discounts |-> {0}, products |-> {1},
     quantities |-> {1}, baskets |-> {2}, lines |-> {1}, shards |-> {1},
     orders |-> {"sorted"}, payments |-> {"Cash"}]

\* one line of any category at any of the three prices, with a quantity at
\* an end of the two ranges of quantities and any discount
MarginInputs ==
    [customers |-> {1}, clock |-> {At(1, 10 * 60 * 60)}, stores |-> {"Downtown"},
     discounts |-> {0} \cup SeqRange(DISCOUNT_RATES),
     products |-> 3..(2 + 3 * Len(CategoryNames)), quantities |-> {1, 10, 50, 100},
     baskets |-> {1}, lines |-> {1}, shards |-> {1}, orders |-> {"sorted"},
     payments |-> {"Cash"}]

\* files of one or two purchases
LoadInputs ==
    [customers |-> {1}, clock |-> {At(1, 10 * 60 * 60)}, stores |-> {"Downtown"},
     discounts |-> {0}, products |-> {1}, quantities |-> {1, 2},
     baskets |-> 1..MaxBaskets, lines |-> {1}, shards |-> {1, 2},
     orders |-> {"sorted", "reversed"}, payments |-> {"Cash"}]

\* a file that lacks a column
WithoutColumn(file, c) ==
    [file EXCEPT !.columns = @ \ {c},
                 !.rows = [n \in DOMAIN file.rows |->
                              [k \in DOMAIN file.rows[n] \ {c} |-> file.rows[n][k]]]]

\* a file whose timestamps read hour 25
WithBadTimestamp(file) ==
    [file EXCEPT !.rows = [n \in DOMAIN file.rows |->
                              [file.rows[n] EXCEPT
                                  !.transaction_datetime.second = 25 * 60 * 60]]]

\* what is wrong with a file, if anything
Damaged(file, damage) ==
    CASE damage = "none" -> file
      [] damage = "no quantity" -> WithoutColumn(file, "quantity")
      [] damage = "no transaction_datetime" -> WithoutColumn(file, "transaction_datetime")
      [] damage = "bad timestamp" -> WithBadTimestamp(file)

----------------------------------------------------------------------------
(* Runs *)

Start(config) ==
    /\ cfg = config
    /\ pc = "customers"
    /\ customers = <<>>
    /\ products = <<>>
    /\ holiday_weeks = <<>>
    /\ i = 0
    /\ txn = NoCall
    /\ transaction = NoTransaction
    /\ transactions = <<>>
    /\ files = <<>>
    /\ error = "none"
    /\ output = <<>>
    /\ df = NoTable
    /\ step = "idle"
    /\ result = NoResult
    /\ raised = "none"

Config(total_transactions, total_customers, total_products, files_to_split) ==
    [transactions |-> total_transactions, customers |-> total_customers,
     products |-> total_products, files |-> files_to_split,
     categories |-> SeqRange(CategoryNames)]

Run(D) ==
    \/ _generate_customers
    \/ _generate_products(D)
    \/ _get_holiday_weeks
    \/ SelectCustomer
    \/ ResampleTimestamp(D)
    \/ SynthesizeTransaction(D)
    \/ SynthesizeTransactionFails(D)
    \/ WriteShard

\* a run whose configuration may be invalid
RunFaults(D) ==
    \/ Run(D)
    \/ GenerateProductsFails
    \/ SelectCustomerFails
    \/ SplitFails

\* runs of several transactions split into several files
Init ==
    \E t \in 1..MaxTransactions, k \in 1..MaxFiles, m \in {1, MaxProducts} :
        Start(Config(t, 2, m, k))

Next == Run(Draws)

Spec == Init /\ [][Next]_vars

\* runs of one transaction into one file, over every catalog size
InitOne == \E m \in 1..MaxProducts : Start(Config(1, 2, m, 1))

NextLines == Run(LineDraws)

SpecLines == InitOne /\ [][NextLines]_vars

NextQuantity == Run(QuantityDraws)

SpecQuantity == InitOne /\ [][NextQuantity]_vars

\* runs of the configurations with at most one error: a count of zero or an
\* empty category table
InitFaults ==
    \E t \in {0, 1}, c \in {0, 2}, m \in {0, 1, MaxProducts}, k \in 0..MaxFiles,
       table \in {{}, SeqRange(CategoryNames)} :
        /\ Cardinality({n \in 1..5 : <<t = 0, c = 0, m = 0, k = 0, table = {}>>[n]}) <= 1
        /\ Start([Config(t, c, m, k) EXCEPT !.categories = table])

NextFaults == RunFaults(Draws)

SpecFaults == InitFaults /\ [][NextFaults]_vars

\* runs of several transactions in which a write of a shard file may fail
NextWrites == Run(Draws) \/ WriteShardFails

SpecWrites == Init /\ [][NextWrites]_vars

\* the app started on a listing of files, the generator not running
StartApp(listing) ==
    /\ cfg = Config(0, 0, 0, 0)
    /\ pc = "idle"
    /\ customers = <<>>
    /\ products = <<>>
    /\ holiday_weeks = <<>>
    /\ i = 0
    /\ txn = NoCall
    /\ transaction = NoTransaction
    /\ transactions = <<>>
    /\ files = <<>>
    /\ error = "none"
    /\ output = listing
    /\ df = NoTable
    /\ step = "load_data"
    /\ result = NoResult
    /\ raised = "none"

\* load_data on an empty directory, or on files any of which may be damaged
InitLoad ==
    \/ StartApp(<<>>)
    \/ \E listing \in Directories(LoadInputs) :
          \E damage \in [DOMAIN listing ->
                            {"none", "no quantity", "no transaction_datetime",
                             "bad timestamp"}] :
              StartApp([n \in DOMAIN listing |-> Damaged(listing[n], damage[n])])

NextLoad == load_data \/ load_dataFails

SpecLoad == InitLoad /\ [][NextLoad]_vars

\* main on the files the generator wrote
InitViews ==
    \E D \in {AnomalyInputs, CalendarInputs, ShardInputs, RetentionInputs,
              BreakdownInputs} :
        \E listing \in Directories(D) : StartApp(listing)

NextViews ==
    \/ load_data
    \/ create_store_performance
    \/ create_category_sales
    \/ create_payment_distribution
    \/ create_sales_performance_dashboard
    \/ create_inventory_analytics
    \/ operational_metrics
    \/ create_operational_efficiency_analysis
    \/ create_marketing_analysis
    \/ get_anomaly_metrics
    \/ create_anomaly_detection
    \/ get_retention_metrics
    \/ get_geographic_metrics
    \/ create_geographic_analysis
    \/ get_financial_metrics
    \/ create_financial_analysis

SpecViews == InitViews /\ [][NextViews]_vars

\* a pass of the resample loop whose candidate is accepted
AcceptTimestamp ==
    /\ ResampleTimestamp(Draws)
    /\ pc' = "basket"

\* the runs that keep running: the process takes its next step while it has
\* one, and the draws of the resample loop do not reject for ever
SpecLive == Init /\ [][Next]_vars /\ WF_vars(Next) /\ WF_vars(AcceptTimestamp)

\* a view called on the table load_data returned for a listing
CallOn(listing, name) ==
    /\ cfg = Config(0, 0, 0, 0)
    /\ pc = "idle"
    /\ customers = <<>>
    /\ products = <<>>
    /\ holiday_weeks = <<>>
    /\ i = 0
    /\ txn = NoCall
    /\ transaction = NoTransaction
    /\ transactions = <<>>
    /\ files = <<>>
    /\ error = "none"
    /\ output = listing
    /\ df = Loaded(listing)
    /\ step = name
    /\ result = NoResult
    /\ raised = "none"

\* the two views that segment the customers, each called on a loaded table
InitSegments ==
    \E listing \in Directories(SegmentInputs) :
        \E name \in {"create_customer_behavior_analysis", "create_retention_analysis"} :
            CallOn(listing, name)

NextSegments ==
    \/ create_customer_behavior_analysis
    \/ create_customer_behavior_analysisFails
    \/ create_retention_analysis
    \/ create_retention_analysisFails

SpecSegments == InitSegments /\ [][NextSegments]_vars

\* the views that write a derived column to the table or read one
OrderViews ==
    {"create_weekly_trends", "create_seasonality_analysis",
     "create_sales_performance_dashboard", "create_operational_efficiency_analysis",
     "create_marketing_analysis", "get_geographic_metrics",
     "create_geographic_analysis"}

\* a caller that makes its calls in another order than main, or leaves calls
\* out: the view it calls next is any of the views
CallAnyView ==
    /\ step \notin {"idle", "load_data", "failed"}
    /\ step' \in OrderViews \ {step}
    /\ UNCHANGED <<output, df, result, raised>>
    /\ UNCHANGED genVars

InitOrder ==
    \E listing \in Directories(OrderInputs) :
        \E name \in OrderViews : CallOn(listing, name)

NextOrder ==
    \/ CallAnyView
    \/ create_weekly_trends
    \/ create_seasonality_analysis
    \/ create_sales_performance_dashboard
    \/ create_operational_efficiency_analysis
    \/ create_marketing_analysis
    \/ get_geographic_metrics
    \/ create_geographic_analysis

\* the views called on one table in any order, any number of times
SpecOrder == InitOrder /\ [][NextOrder]_vars

\* the two financial functions called on a table of one line
InitMargins ==
    \E listing \in Directories(MarginInputs) : CallOn(listing, "get_financial_metrics")

NextMargins == get_financial_metrics \/ create_financial_analysis

SpecMargins == InitMargins /\ [][NextMargins]_vars

NextClock == Run(ClockDraws)

SpecClock == InitOne /\ [][NextClock]_vars

----------------------------------------------------------------------------
(* Properties *)

Rows == SeqRange(transactions)

\* the rows of the transaction returned last: the tail of the table
LastRows ==
    SubSeq(transactions, Len(transactions) - Len(transaction.products) + 1,
           Len(transactions))

\* C1: every line's total_price is quantity x unit_price x (1 - discount),
\* rounded to cents, of the line's own quantity, of the catalog price of the
\* line's product and of the discount of the line's transaction.
C1_TotalPriceDerived ==
    /\ \A row \in Rows :
          /\ row.total_price =
                PyRound(row.quantity * row.unit_price * (100 - row.discount_applied), 100)
          /\ row.unit_price = products[row.product_id].base_price
    /\ \A n \in DOMAIN transaction.products :
          /\ LastRows[n].quantity = transaction.products[n].quantity
          /\ LastRows[n].product_id = transaction.products[n].product.product_id
          /\ LastRows[n].discount_applied = transaction.discount_applied

\* a discounted line whose exact price is not a whole number of cents
C1_Witness ==
    /\ pc = "done"
    /\ \E row \in Rows :
          /\ row.discount_applied = 15
          /\ row.quantity > 1
          /\ (row.quantity * row.unit_price * 85) % 100 # 0

\* C2: a finished run has written FILES_TO_SPLIT shards; each but the last
\* holds floor(total/k) rows, the last holds the rest, and the shards hold
\* total rows together.  The shards written so far already have these sizes.
C2_ShardSizes ==
    LET total == Len(transactions)
        k == cfg.files
    IN  /\ pc = "done" => Len(files) = k
        /\ Len(files) <= k
        /\ \A n \in DOMAIN files :
              Len(files[n]) = IF n < k THEN total \div k
                              ELSE total - (k - 1) * (total \div k)
        /\ pc = "done" => Len(Concat(files)) = total

\* fewer rows than shards: every shard but the last is empty
C2_Witness ==
    /\ pc = "done"
    /\ cfg.files = 3
    /\ Len(transactions) = 2
    /\ files[1] = <<>> /\ files[2] = <<>> /\ Len(files[3]) = 2

\* C3: the shards in index order are the line table: the shards written so
\* far are a prefix of it, row for row, and all of them are the whole table.
C3_ShardsConcatenate ==
    LET written == Concat(files)
    IN  /\ Len(written) <= Len(transactions)
        /\ written = SubSeq(transactions, 1, Len(written))
        /\ pc = "done" => written = transactions

\* two shards of different rows, the table not a multiple of the shard count
C3_Witness ==
    /\ pc = "done"
    /\ cfg.files = 2
    /\ Len(transactions) = 3
    /\ Len(files[1]) = 1
    /\ files[2][1] # files[1][1]

\* ceil(0.2 x total)
CeilFifth(total) == (2 * total + 9) \div 10

\* C4: the number of high-demand products is ceil(0.2 x TOTAL_PRODUCTS) and
\* they are the products of generation index 0..count-1.
C4_HighDemandCeil ==
    pc \notin {"customers", "products"} =>
        \A n \in DOMAIN products :
            products[n].is_high_demand <=> n - 1 < CeilFifth(cfg.products)

\* C5: with one product or more the high-demand subset is not empty when a
\* basket is drawn, and the draw of a high-demand product never fails.
C5_HighDemandNonEmpty ==
    cfg.products >= 1 =>
        /\ pc = "failed" => HighDemand(products) # <<>>
        /\ error # "IndexError"

\* C6: a candidate is accepted only by a draw of its own class: a weekend
\* candidate by the 0.3 draw, a holiday-week candidate by the 0.2 draw (one
\* that is both, by either), any other candidate by the 0.5 draw.
C6_AcceptedByOwnDraw ==
    txn.loop.accepted =>
        \/ txn.loop.is_weekend /\ txn.loop.weekend_draw = "pass"
        \/ txn.loop.is_holiday /\ txn.loop.holiday_draw = "pass"
        \/ /\ ~txn.loop.is_weekend
           /\ ~txn.loop.is_holiday
           /\ txn.loop.regular_draw = "pass"

\* the seven days, Monday to Sunday, of the week of a holiday
InHolidayCalendarWeek(date) ==
    \E n \in DOMAIN Holidays :
        LET monday == Holidays[n] - weekday(At(Holidays[n], 0))
            day == date \div SecondsPerDay
        IN  monday <= day /\ day <= monday + 6

\* C7: a candidate is classified holiday-week exactly when its day is one of
\* the seven days of the week of a holiday, whatever the time of day.
C7_HolidayWeekWholeDays ==
    txn.loop.transaction_date >= 0 =>
        (txn.loop.is_holiday <=> InHolidayCalendarWeek(txn.loop.transaction_date))

\* C8: the lines of one transaction carry one discount.
C8_DiscountPerTransaction ==
    \A a \in Rows, b \in Rows :
        a.transaction_id = b.transaction_id => a.discount_applied = b.discount_applied

\* a discounted transaction of two lines and a transaction without discount
C8_Witness ==
    /\ Len(transactions) >= 3
    /\ transactions[1].transaction_id = transactions[2].transaction_id
    /\ transactions[1].discount_applied = 10
    /\ \E row \in Rows : row.transaction_id = 2 /\ row.discount_applied = 0

\* C9: the discount of a line is 0, 5, 10 or 15 percent.
C9_DiscountValues ==
    \A row \in Rows : row.discount_applied \in {0, 5, 10, 15}

\* a line of a loyalty member at 15 percent
C9_Witness ==
    \E row \in Rows : row.loyalty_member /\ row.discount_applied = 15

\* C10: loyalty_member of a line is the boolean flag its customer got in the
\* catalog, so the lines of one customer agree on it.
C10_LoyaltyOfCustomer ==
    /\ \A row \in Rows :
          /\ row.loyalty_member \in BOOLEAN
          /\ row.loyalty_member = customers[row.customer_id].is_loyalty
    /\ \A a \in Rows, b \in Rows :
          a.customer_id = b.customer_id => a.loyalty_member = b.loyalty_member

\* two transactions of one customer, no member, the first one discounted,
\* while the other customer is a member
C10_Witness ==
    /\ \E a \in Rows, b \in Rows :
          /\ a.customer_id = b.customer_id
          /\ a.transaction_id # b.transaction_id
          /\ ~a.loyalty_member
          /\ a.discount_applied > 0
    /\ \E n \in DOMAIN customers : customers[n].is_loyalty

\* C11: the quantity of a line is in 1..10 or in 50..100; it is the draw from
\* 1..10, replaced by the draw from 6..10 when the bulk check fired, replaced
\* by the draw from 50..100 when the anomaly check fired, whatever the bulk
\* check gave.  txn.slot holds the draws of the slot flattened last.
C11_QuantityRanges ==
    /\ \A row \in Rows : row.quantity \in (1..10) \cup (50..100)
    /\ transactions # <<>> =>
          LET slot == txn.slot
              quantity == transactions[Len(transactions)].quantity
          IN  /\ slot.q_base \in 1..10
              /\ slot.anomaly => quantity = slot.q_anomaly /\ quantity \in 50..100
              /\ (slot.bulk /\ ~slot.anomaly) =>
                    quantity = slot.q_bulk /\ quantity \in 6..10
              /\ (~slot.bulk /\ ~slot.anomaly) => quantity = slot.q_base

\* a slot where both checks fired: the anomaly draw is the quantity
C11_Witness ==
    /\ transactions # <<>>
    /\ txn.slot.bulk /\ txn.slot.anomaly
    /\ txn.slot.q_bulk = 10
    /\ transactions[Len(transactions)].quantity = 100

\* the positions of the rows of transaction id in the table
RowsOf(id) == {n \in DOMAIN transactions : transactions[n].transaction_id = id}

\* C12: a basket has 1 to 15 slots and is flattened into one line per slot:
\* every transaction synthesized so far has 1 to 15 rows, every row is of one
\* of them, the rows of the transaction returned last are one per entry of
\* its basket, and the table has all TOTAL_TRANSACTIONS of them when it is
\* split.
C12_OneLinePerSlot ==
    /\ \A id \in 1..i : Cardinality(RowsOf(id)) \in 1..15
    /\ \A row \in Rows : row.transaction_id \in 1..i
    /\ i >= 1 =>
          /\ transaction.transaction_id = i
          /\ Len(transaction.products) \in 1..15
          /\ Cardinality(RowsOf(i)) = Len(transaction.products)
          /\ RowsOf(i) = (Len(transactions) - Len(transaction.products) + 1)..Len(transactions)
    /\ pc \in {"split", "done"} => i = cfg.transactions

\* a finished run of two transactions, a basket of one slot and one of two
C12_Witness ==
    /\ pc = "done"
    /\ i = 2
    /\ Cardinality(RowsOf(1)) = 1
    /\ Cardinality(RowsOf(2)) = 2
    /\ Len(transactions) = 3

\* a count that is zero or negative, or an empty category table
InvalidConfig ==
    \/ cfg.transactions <= 0
    \/ cfg.customers <= 0
    \/ cfg.products <= 0
    \/ cfg.files <= 0
    \/ cfg.categories = {}

\* C13: under an invalid configuration nothing is generated and no file is
\* written, and the run does not complete.
C13_FailFastOnConfig ==
    InvalidConfig =>
        /\ customers = <<>>
        /\ products = <<>>
        /\ transactions = <<>>
        /\ files = <<>>
        /\ pc # "done"

\* C14: a run that has ended, completed or failed, has written all of its
\* FILES_TO_SPLIT shard files or none.
C14_AllOrNothing ==
    pc \in {"done", "failed"} => Len(files) \in {0, cfg.files}

\* C15: a load that returned a table read only files that have the thirteen
\* columns and timestamps that parse, and the table has the thirteen columns
\* and one row for every row of every file.
C15_LoadAllOrFail ==
    (step # "load_data" /\ step # "failed") =>
        /\ \A n \in DOMAIN output :
              /\ ExpectedColumns \subseteq output[n].columns
              /\ \A k \in DOMAIN output[n].rows :
                    Parseable(output[n].rows[k].transaction_datetime)
        /\ ExpectedColumns \subseteq df.columns
        /\ Len(df.rows) = Len(Concat([n \in DOMAIN output |-> output[n].rows]))

\* C16: after load_data has returned, the shared table stays the table it
\* returned: the same rows, the same columns, the same values.
C16_ViewsLeaveTable ==
    step \notin {"idle", "load_data", "failed"} => df = Loaded(output)

\* the values of column c are the same in all rows of the product of row n
ConstantInProduct(table, n, c) ==
    \A k \in Where(table, "product_id", table.rows[n].product_id) :
        table.rows[k][c] = table.rows[n][c]

\* a z-score that is the number 0: a zero numerator over a non-zero number
ZeroScore(z) == z.deviation = 0 /\ z.std \in {"1", "positive"}

\* C17: in both functions that compute z-scores, a line of a product whose
\* quantity (unit price) is the same on all its lines has the quantity
\* (unit-price) z-score 0.
C17_ConstantProductZeroScore ==
    result.view \in {"get_anomaly_metrics", "create_anomaly_detection"} =>
        \A n \in Index(df) :
            /\ ConstantInProduct(df, n, "quantity") => ZeroScore(result.quantity_zscore[n])
            /\ ConstantInProduct(df, n, "unit_price") => ZeroScore(result.price_zscore[n])

\* C18: outside the anomaly view no quotient has the denominator 0: the days
\* and months spanned, the weekday sales, the discounted sales, the group
\* sums and the transaction counts.
C18_NoZeroDenominator ==
    /\ result.view = "create_inventory_analytics" =>
          /\ result.days_in_data # 0
          /\ \A p \in DOMAIN result.daily_sales_rate : result.daily_sales_rate[p].den # 0
          /\ \A c \in DOMAIN result.turnover_rate : result.turnover_rate[c].den # 0
    /\ result.view = "operational_metrics" => result.weekend_ratio.den # 0
    /\ result.view = "create_marketing_analysis" =>
          \A d \in DOMAIN result.discount_impact : result.discount_impact[d].den # 0
    /\ result.view = "get_retention_metrics" =>
          /\ result.repeat_rate.den # 0
          /\ result.avg_monthly_frequency.den # 0
          /\ result.churn_risk.den # 0
    /\ result.view = "create_geographic_analysis" =>
          \A key \in DOMAIN result.regional_prefs : result.regional_prefs[key].den # 0
    /\ result.view = "get_financial_metrics" =>
          /\ result.overall_margin.den # 0
          /\ result.discount_margin.den # 0

\* the points of the box trace: the k-th location with the k-th value
BoxPoints(trace) ==
    {<<trace.x[k], trace.y[k]>> : k \in 1..Min(Len(trace.x), Len(trace.y))}

\* C19: the aggregates computed from the files listed in one order are the
\* aggregates computed from the same files listed in the opposite order.
C19_OrderIndependent ==
    /\ result.view = "create_operational_efficiency_analysis" =>
          result.time_between_transactions
              = time_between_transactions(Loaded(Reverse(output)))
    /\ result.view = "create_geographic_analysis" =>
          LET other == geographic_analysis(Loaded(Reverse(output)))
          IN  /\ result.regional_prefs = other.regional_prefs
              /\ result.location_metrics = other.location_metrics
              /\ BoxPoints(result.transaction_size) = BoxPoints(other.transaction_size)

\* the moment of the last purchase of a customer
LastPurchase(customer) ==
    Largest({df.rows[n].transaction_datetime : n \in Where(df, "customer_id", customer)})

\* the moment of the last purchase of the table
LastOfAll == Largest({df.rows[n].transaction_datetime : n \in Index(df)})

CustomerIds == {df.rows[n].customer_id : n \in Index(df)}

\* the customers with more than one distinct transaction_id
Repeating ==
    {c \in CustomerIds :
        Cardinality({df.rows[n].transaction_id : n \in Where(df, "customer_id", c)}) > 1}

MarginPercent ==
    "Organic" :> 45 @@ "Meat" :> 35 @@ "Dairy" :> 30 @@ "Produce" :> 25
        @@ "Bakery" :> 40 @@ "Frozen Foods" :> 35 @@ "Snacks" :> 50
        @@ "Beverages" :> 45 @@ "Pantry" :> 40 @@ "Personal Care" :> 55

\* total_price - unit_price * (1 - margin%) * quantity of row n of the loaded
\* table, in hundredths of a cent
LineMargin(n) ==
    100 * df.rows[n].total_price
        - df.rows[n].unit_price * (100 - MarginPercent[df.rows[n].product_category])
              * df.rows[n].quantity

\* sum(margin) / sum(total_price) * 100 over the rows S
MarginRatio(S) ==
    Ratio(SumOf([n \in S |-> LineMargin(n)], S),
          SumOf([n \in S |-> df.rows[n].total_price], S))

\* the margin of every line in both financial functions, and the ratios per
\* category and per day
MarginsAndRatios ==
    /\ result.view \in {"get_financial_metrics", "create_financial_analysis"} =>
          \A n \in Index(df) : result.margin[n] = LineMargin(n)
    /\ result.view = "create_financial_analysis" =>
          /\ DOMAIN result.category_profits
                = {df.rows[n].product_category : n \in Index(df)}
          /\ \A c \in DOMAIN result.category_profits :
                result.category_profits[c].margin_percent
                    = MarginRatio({n \in Index(df) : df.rows[n].product_category = c})
          /\ DOMAIN result.daily_profits
                = {df.rows[n].transaction_datetime \div SecondsPerDay : n \in Index(df)}
          /\ \A day \in DOMAIN result.daily_profits :
                result.daily_profits[day].margin_percent
                    = MarginRatio({n \in Index(df) :
                          df.rows[n].transaction_datetime \div SecondsPerDay = day})

\* C21: in both financial functions the margin of a line is total_price -
\* unit_price * (1 - margin% of its category) * quantity, the percentage
\* taken from the fixed table of ten categories; per category, per discount
\* level and per day a margin ratio sum(margin) / sum(total_price) is computed.
C21_MarginRatiosAsStated ==
    /\ MarginsAndRatios
    /\ result.view = "create_financial_analysis" =>
          \A d \in DOMAIN result.discount_impact :
              /\ "margin_percent" \in DOMAIN result.discount_impact[d]
              /\ result.discount_impact[d].margin_percent
                    = MarginRatio({n \in Index(df) : df.rows[n].discount_applied = d})

\* C21 amended: the margins of the lines and the ratios per category and per
\* day are as stated; per discount level create_financial_analysis keeps the
\* sums of total_price, margin and quantity and no ratio, and
\* get_financial_metrics computes one ratio over all the discounted lines.
C21_MarginRatios ==
    /\ MarginsAndRatios
    /\ result.view = "create_financial_analysis" =>
          /\ DOMAIN result.discount_impact
                = {df.rows[n].discount_applied : n \in Index(df)}
          /\ \A d \in DOMAIN result.discount_impact :
                LET S == {n \in Index(df) : df.rows[n].discount_applied = d}
                IN  result.discount_impact[d]
                        = [total_price |-> SumOf([n \in S |-> df.rows[n].total_price], S),
                           margin      |-> SumOf([n \in S |-> LineMargin(n)], S),
                           quantity    |-> SumOf([n \in S |-> df.rows[n].quantity], S)]
    /\ result.view = "get_financial_metrics" =>
          /\ result.discount_margin
                = MarginRatio({n \in Index(df) : df.rows[n].discount_applied > 0})
          /\ result.overall_margin = MarginRatio(Index(df))

\* create_financial_analysis on lines of two categories, one of them with a
\* quantity of 2
C21_Witness ==
    /\ result.view = "create_financial_analysis"
    /\ Cardinality(DOMAIN result.category_profits) = 2
    /\ \E n \in Index(df) : df.rows[n].quantity = 2 /\ result.margin[n] > 0

\* the rows of the loaded table whose column c has the value v
Group(c, v) == {n \in Index(df) : df.rows[n][c] = v}

\* the sum of column c over the rows S of the loaded table
Total(S, c) == SumOf([n \in S |-> df.rows[n][c]], S)

\* the number of distinct values of column c in the rows S
Distinct(S, c) == Cardinality({df.rows[n][c] : n \in S})

\* the store breakdown: sales, distinct transactions, distinct customers and
\* the sales per distinct transaction
StoreBreakdown ==
    result.view = "create_store_performance" =>
        /\ DOMAIN result.store_stats = {df.rows[n].store_location : n \in Index(df)}
        /\ \A s \in DOMAIN result.store_stats :
              result.store_stats[s]
                  = [total_price     |-> Total(Group("store_location", s), "total_price"),
                     transaction_id  |-> Distinct(Group("store_location", s),
                                                  "transaction_id"),
                     customer_id     |-> Distinct(Group("store_location", s), "customer_id"),
                     avg_transaction |->
                         Ratio(Total(Group("store_location", s), "total_price"),
                               Distinct(Group("store_location", s), "transaction_id"))]

\* C22: each of the category, store and payment breakdowns computes per
\* group the sum of total_price, the distinct transactions, the distinct
\* customers, and the average transaction value: the sum over the distinct
\* transactions.
C22_BreakdownsAsStated ==
    /\ StoreBreakdown
    /\ result.view = "create_category_sales" =>
          \A c \in DOMAIN result.category_stats :
              /\ result.category_stats[c].total_price
                    = Total(Group("product_category", c), "total_price")
              /\ result.category_stats[c].transaction_id
                    = Distinct(Group("product_category", c), "transaction_id")
              /\ "customer_id" \in DOMAIN result.category_stats[c]
              /\ "avg_transaction" \in DOMAIN result.category_stats[c]
    /\ result.view = "create_payment_distribution" =>
          \A p \in DOMAIN result.payment_stats :
              /\ result.payment_stats[p].total_price
                    = Total(Group("payment_method", p), "total_price")
              /\ result.payment_stats[p].transaction_id
                    = Distinct(Group("payment_method", p), "transaction_id")
              /\ "customer_id" \in DOMAIN result.payment_stats[p]
              /\ "avg_transaction" \in DOMAIN result.payment_stats[p]

\* C22 amended: the store breakdown is as stated.  The category breakdown
\* computes per category the sum of total_price, the sum of quantity, the
\* distinct transactions and the price per item (sales over units); the
\* payment breakdown per method the distinct transactions, the sum of
\* total_price and the percentage of the transactions, counted per method.
C22_Breakdowns ==
    /\ StoreBreakdown
    /\ result.view = "create_category_sales" =>
          /\ DOMAIN result.category_stats = {df.rows[n].product_category : n \in Index(df)}
          /\ \A c \in DOMAIN result.category_stats :
                result.category_stats[c]
                    = [total_price    |-> Total(Group("product_category", c), "total_price"),
                       quantity       |-> Total(Group("product_category", c), "quantity"),
                       transaction_id |-> Distinct(Group("product_category", c),
                                                   "transaction_id"),
                       avg_price_per_item |->
                           Ratio(Total(Group("product_category", c), "total_price"),
                                 Total(Group("product_category", c), "quantity"))]
    /\ result.view = "create_payment_distribution" =>
          /\ DOMAIN result.payment_stats = {df.rows[n].payment_method : n \in Index(df)}
          /\ \A p \in DOMAIN result.payment_stats :
                result.payment_stats[p]
                    = [transaction_id |-> Distinct(Group("payment_method", p),
                                                   "transaction_id"),
                       total_price    |-> Total(Group("payment_method", p), "total_price"),
                       percentage     |->
                           Ratio(100 * Distinct(Group("payment_method", p), "transaction_id"),
                                 Distinct(Index(df), "transaction_id"))]

\* the store breakdown of two transactions of one customer at one store
C22_Witness ==
    /\ result.view = "create_store_performance"
    /\ \E s \in DOMAIN result.store_stats :
          /\ result.store_stats[s].transaction_id = 2
          /\ result.store_stats[s].customer_id = 1

\* both catalogs have all their entries
CatalogsComplete ==
    /\ Len(customers) = cfg.customers
    /\ Len(products) = cfg.products

\* every transaction of the run was synthesized and its lines were appended
AllFlattened ==
    /\ i = cfg.transactions
    /\ {transactions[n].transaction_id : n \in DOMAIN transactions} = 1..cfg.transactions

\* a step of generate_transaction or generate_dataset leaves both catalogs
CatalogsKept ==
    pc \in {"select", "resample", "basket", "split"} =>
        (customers' = customers /\ products' = products)

\* C23: the stages of a generator run are strictly ordered.  The customer
\* catalog is complete before the product catalog is begun, and both are
\* complete before the first transaction is begun; every transaction is
\* synthesized and flattened before the first shard is written; and no step
\* of generate_transaction or generate_dataset changes either catalog.
C23_StagesOrdered ==
    /\ [](products # <<>> => Len(customers) = cfg.customers)
    /\ []((txn # NoCall \/ i > 0 \/ transactions # <<>>) => CatalogsComplete)
    /\ [](files # <<>> => AllFlattened)
    /\ [][CatalogsKept]_vars

\* a run of two transactions that has written its shards
C23_Witness ==
    /\ pc = "done"
    /\ Len(files) = cfg.files
    /\ cfg.transactions = 2
    /\ CatalogsComplete
    /\ AllFlattened

\* C24: a run of a valid positive configuration, with fair acceptance draws,
\* leaves every resample loop, returns every transaction and eventually has
\* written all its shards.
C24_EventuallyAllShards ==
    <>(pc = "done" /\ i = cfg.transactions /\ Len(files) = cfg.files)

\* with a catalog of at least 5 products the run does write all its shards
CompletesWithHighDemand ==
    cfg.products >= 5 => <>(pc = "done" /\ i = cfg.transactions /\ Len(files) = cfg.files)

\* C25: on every non-empty table the customer segmentation gives every
\* customer one of the three frequency labels and one of the three spend
\* labels and raises no error, also when customers share a count or a spend.
C25_SegmentsWithoutRaising ==
    /\ raised = "none"
    /\ result.view = "create_customer_behavior_analysis" =>
          \A c \in CustomerIds :
              /\ result.customer_metrics[c].frequency_segment
                    \in {"Occasional", "Regular", "Frequent"}
              /\ result.customer_metrics[c].spend_segment
                    \in {"Low Spender", "Medium Spender", "High Spender"}
    /\ result.view = "create_retention_analysis" =>
          \A c \in CustomerIds : result.frequency_segments[c] \in {"Low", "Medium", "High"}

\* the number of customers of each churn bucket adds up to the customers
BucketsCoverCustomers ==
    SumOf(result.churn_risk_counts, DOMAIN result.churn_risk_counts)
        = Cardinality(CustomerIds)

\* C26: create_retention_analysis gives every customer one of the four churn
\* buckets by the days since the last purchase, also the customers whose last
\* purchase is on the last day of the table; the counts of the buckets add up
\* to the customers, and Very High holds the customers get_retention_metrics
\* counts at risk (more than 90 days).
C26_ChurnBuckets ==
    result.view = "create_retention_analysis" =>
        /\ \A c \in CustomerIds :
              result.customer_last_purchase[c].churn_risk
                  \in {"Low", "Medium", "High", "Very High"}
        /\ BucketsCoverCustomers
        /\ Ratio(100 * result.churn_risk_counts["Very High"], Cardinality(CustomerIds))
              = retention_metrics(df).churn_risk

\* every customer but those of 0 days has a bucket; Very High is the risk
ChurnBucketsButLastDay ==
    result.view = "create_retention_analysis" =>
        /\ \A c \in CustomerIds :
              result.customer_last_purchase[c].churn_risk = "NaN"
                  <=> LastOfAll - LastPurchase(c) < SecondsPerDay
        /\ Ratio(100 * result.churn_risk_counts["Very High"], Cardinality(CustomerIds))
              = retention_metrics(df).churn_risk

\* the table load_data returned with every derived column, each computed
\* from the row it stands in
WithDerived ==
    LET loaded == Loaded(output)
    IN  [columns |-> loaded.columns
                        \cup {"date", "week", "month", "is_weekend", "hour", "weekday",
                              "is_holiday", "location_type", "season"},
         rows |-> [n \in Index(loaded) |->
                     LET ts == loaded.rows[n].transaction_datetime
                     IN  loaded.rows[n]
                             @@ [date          |-> dt_date(ts),
                                 week          |-> dt_week(ts),
                                 month         |-> dt_month(ts),
                                 is_weekend    |-> is_weekend(ts),
                                 hour          |-> dt_hour(ts),
                                 weekday       |-> day_name(ts),
                                 is_holiday    |-> is_holiday(ts),
                                 location_type |->
                                     location_type(loaded.rows[n].store_location),
                                 season        |-> season(dt_month(ts))]]]

\* every column of the table, derived or loaded, has in every row the value
\* computed from that row alone
SameValuesWhoeverWrote ==
    /\ Index(df) = Index(WithDerived)
    /\ Loaded(output).columns \subseteq df.columns
    /\ df.columns \subseteq WithDerived.columns
    /\ \A n \in Index(df) : \A c \in df.columns : df.rows[n][c] = WithDerived.rows[n][c]

\* the aggregates of the view that returned last are those of the loaded table
SameAggregates ==
    /\ result.view = "create_weekly_trends" =>
          /\ result.weekly_stats = weekly_stats(WithDerived)
          /\ result.weekday_avg = weekday_avg(WithDerived)
    /\ result.view = "create_seasonality_analysis" =>
          /\ result.monthly_stats = monthly_stats(WithDerived)
          /\ result.seasonal_stats = seasonal_stats(WithDerived)
    /\ result.view = "create_sales_performance_dashboard" =>
          /\ result.daily_sales = GroupSum(WithDerived, "date", "total_price")
          /\ result.weekly_sales = GroupSum(WithDerived, "week", "total_price")
          /\ result.category_sales = GroupSum(WithDerived, "product_category", "total_price")
    /\ result.view = "create_operational_efficiency_analysis" =>
          /\ result.hourly_pattern = hourly_pattern(WithDerived)
          /\ result.time_between_transactions = time_between_transactions(WithDerived)
    /\ result.view = "create_marketing_analysis" =>
          /\ result.discount_impact = discount_impact(WithDerived)
          /\ result.total_sales = GroupSum(WithDerived, "is_holiday", "total_price")
          /\ result.num_transactions
                = GroupNunique(WithDerived, "is_holiday", "transaction_id")
    /\ result.view = "get_geographic_metrics" =>
          /\ result.urban_avg_transaction
                = MeanOver(WithDerived, Where(WithDerived, "location_type", "Urban"),
                           "total_price")
          /\ result.suburban_avg_transaction
                = MeanOver(WithDerived, Where(WithDerived, "location_type", "Suburban"),
                           "total_price")
    /\ result.view = "create_geographic_analysis" =>
          result = geographic_analysis(Loaded(output))

\* C27: the aggregate of a view is the same whatever views ran before it and
\* in whatever order: a view that reads a derived column has written it
\* first, and all views that write a derived column write the same values.
C27_SameWhateverRanBefore ==
    step # "idle" => (SameValuesWhoeverWrote /\ SameAggregates)

\* create_operational_efficiency_analysis has returned on a table to which
\* create_weekly_trends and create_sales_performance_dashboard had written
\* weekday and is_weekend before it
C27_Witness ==
    /\ result.view = "create_operational_efficiency_analysis"
    /\ {"week", "date", "weekday", "hour", "season"} \subseteq df.columns
    /\ Cardinality(DOMAIN result.hourly_pattern) = 2

\* C28: within a transaction a product is on at most one line, so that
\* (transaction_id, product_id) identifies a line and the lines of a
\* transaction are as many as its distinct products.  A basket of more slots
\* than the catalog has products cannot but repeat one; the property is
\* stated for the baskets the catalog can fill without repeating.
C28_ProductOncePerTransaction ==
    \A id \in 1..i :
        Cardinality(RowsOf(id)) <= cfg.products =>
            /\ \A a, b \in RowsOf(id) :
                  transactions[a].product_id = transactions[b].product_id => a = b
            /\ Cardinality(RowsOf(id))
                  = Cardinality({transactions[n].product_id : n \in RowsOf(id)})

\* C29: every category the generator can give a line has an entry in the
\* margin table of both financial functions, and the two tables hold the
\* same ten categories with the same percentages: the percentage either
\* function gives a line is the one the table of the other function holds.
C29_MarginTablesAgree ==
    /\ DOMAIN financial_metrics_margins = DOMAIN PRODUCT_CATEGORIES
    /\ DOMAIN financial_analysis_margins = DOMAIN PRODUCT_CATEGORIES
    /\ Cardinality(DOMAIN PRODUCT_CATEGORIES) = 10
    /\ result.view = "get_financial_metrics" =>
          \A n \in Index(df) :
              /\ df.rows[n].product_category \in DOMAIN financial_analysis_margins
              /\ result.margin_percentage[n]
                    = financial_analysis_margins[df.rows[n].product_category]
    /\ result.view = "create_financial_analysis" =>
          \A n \in Index(df) :
              /\ df.rows[n].product_category \in DOMAIN financial_metrics_margins
              /\ result.margin_percentage[n]
                    = financial_metrics_margins[df.rows[n].product_category]

\* create_financial_analysis on a line of the category Personal Care
C29_Witness ==
    /\ result.view = "create_financial_analysis"
    /\ df.rows[1].product_category = "Personal Care"
    /\ result.margin_percentage[1] = 55

\* C30: the margin of every line the generator can write is not negative:
\* the smallest margin percentage is above the largest discount, and the
\* rounding of total_price does not take up the difference.
C30_MarginNotNegative ==
    result.view \in {"get_financial_metrics", "create_financial_analysis"} =>
        \A n \in Index(df) : result.margin[n] >= 0

\* get_financial_metrics on one unit of the cheapest product of the category
\* of the smallest margin, sold at the largest discount
C30_Witness ==
    /\ result.view = "get_financial_metrics"
    /\ df.rows[1].product_category = "Produce"
    /\ df.rows[1].unit_price = 99
    /\ df.rows[1].quantity = 1
    /\ df.rows[1].discount_applied = 15
    /\ df.rows[1].total_price = 84
    /\ result.margin[1] = 975

====
